---- MODULE Spec2Model ----
(***************************************************************************)
(* A model of fanotify-rs: the synchronous session (src/src/fanotify.rs),  *)
(* the event decoder (src/src/event.rs) and the flag sets                  *)
(* (src/src/flags.rs), together with the kernel notification group they    *)
(* talk to (the queue of records, the marks, the stream of responses).     *)
(*                                                                         *)
(* A bit set (bitflags!) is modelled as the set of the positions of its 1  *)
(* bits (0x1000 is {12}), so union is \cup, contains is \subseteq and      *)
(* from_bits is a subset test against the union of the named bits.         *)
(***************************************************************************)
EXTENDS Integers, Sequences, FiniteSets, TLC

(***************************************************************************)
(* Bounds of the model.                                                    *)
(***************************************************************************)
\* records the kernel emits in one behaviour
MaxEmit == 2
\* response records accepted by the kernel in one behaviour
MaxResponses == 2

(***************************************************************************)
(* flags.rs: MaskFlags (u64).                                              *)
(***************************************************************************)
ACCESS == {0}              \* 0x00000001
MODIFY == {1}              \* 0x00000002
ATTRIB == {2}              \* 0x00000004
CLOSE_WRITE == {3}         \* 0x00000008
CLOSE_NOWRITE == {4}       \* 0x00000010
OPEN == {5}                \* 0x00000020
MOVED_FROM == {6}          \* 0x00000040
MOVED_TO == {7}            \* 0x00000080
CREATE == {8}              \* 0x00000100
DELETE == {9}              \* 0x00000200
DELETE_SELF == {10}         \* 0x00000400
MOVE_SELF == {11}           \* 0x00000800
OPEN_PERM == {12}           \* 0x00001000
ACCESS_PERM == {13}         \* 0x00002000
ISDIR == {30}               \* 0x40000000
UNMOUNT == {13}             \* 0x00002000
Q_OVERFLOW == {14}          \* 0x00004000
IGNORED == {15}             \* 0x00008000
ONLYDIR == {24}             \* 0x01000000
DONT_FOLLOW == {25}         \* 0x02000000
EXCL_UNLINK == {26}         \* 0x04000000
MASK_ADD == {29}            \* 0x20000000
IGNORED_MASK == {31}        \* 0x80000000
ALL_ACCESS_EVENTS == ACCESS \cup MODIFY \cup ATTRIB \cup CLOSE_WRITE \cup CLOSE_NOWRITE \cup OPEN
ALL_MODIFY_EVENTS == MODIFY \cup ATTRIB \cup CLOSE_WRITE \cup CREATE \cup DELETE \cup DELETE_SELF
                     \cup MOVE_SELF \cup MOVED_FROM \cup MOVED_TO
ALL_EVENTS == ALL_ACCESS_EVENTS \cup ALL_MODIFY_EVENTS \cup OPEN_PERM \cup ACCESS_PERM \cup UNMOUNT

\* MaskFlags::all(): the union of every named constant of the bitflags! block
MaskFlags_all == ALL_EVENTS \cup ISDIR \cup Q_OVERFLOW \cup IGNORED \cup ONLYDIR \cup DONT_FOLLOW
                 \cup EXCL_UNLINK \cup MASK_ADD \cup IGNORED_MASK

\* linux.rs: a bit the kernel may report that MaskFlags does not name
FAN_EVENT_ON_CHILD == {27}  \* 0x08000000

\* flags.rs: the constants of MaskFlags, by name
MaskFlags_consts ==
    [ACCESS |-> ACCESS, MODIFY |-> MODIFY, ATTRIB |-> ATTRIB, CLOSE_WRITE |-> CLOSE_WRITE,
     CLOSE_NOWRITE |-> CLOSE_NOWRITE, OPEN |-> OPEN, MOVED_FROM |-> MOVED_FROM,
     MOVED_TO |-> MOVED_TO, CREATE |-> CREATE, DELETE |-> DELETE,
     DELETE_SELF |-> DELETE_SELF, MOVE_SELF |-> MOVE_SELF, OPEN_PERM |-> OPEN_PERM,
     ACCESS_PERM |-> ACCESS_PERM, ISDIR |-> ISDIR, UNMOUNT |-> UNMOUNT,
     Q_OVERFLOW |-> Q_OVERFLOW, IGNORED |-> IGNORED, ONLYDIR |-> ONLYDIR,
     DONT_FOLLOW |-> DONT_FOLLOW, EXCL_UNLINK |-> EXCL_UNLINK, MASK_ADD |-> MASK_ADD,
     IGNORED_MASK |-> IGNORED_MASK]

\* linux.rs: the FAN_* mask constants, by the name after FAN_
FAN_consts ==
    [ACCESS |-> {0}, MODIFY |-> {1}, ATTRIB |-> {2}, CLOSE_WRITE |-> {3},
     CLOSE_NOWRITE |-> {4}, OPEN |-> {5}, MOVED_FROM |-> {6}, MOVED_TO |-> {7},
     CREATE |-> {8}, DELETE |-> {9}, DELETE_SELF |-> {10}, MOVE_SELF |-> {11},
     OPEN_PERM |-> {12}, ACCESS_PERM |-> {13}, OPEN_EXEC_PERM |-> {14},
     OPEN_EXEC |-> {15}, QUEUE_OVERFLOW |-> {14}, FS_ERROR |-> {15}, UNMOUNT |-> {13},
     ISDIR |-> {30}, ONLYDIR |-> {24}, DONT_FOLLOW |-> {25}, EXCL_UNLINK |-> {26},
     MASK_ADD |-> {29}, IGNORED_MASK |-> {31}, IGNORED_SURV_MODIFY |-> {13},
     EVENT_ON_CHILD |-> FAN_EVENT_ON_CHILD]

\* flags.rs: EventFlags (u32), the response decision
ALLOW == {0}               \* 0x00000001
DENY == {1}                \* 0x00000002
\* every value of the EventFlags type: empty(), ALLOW, DENY, ALLOW | DENY
EventFlags_values == SUBSET (ALLOW \cup DENY)

\* flags.rs: FanotifyFlags values a session is created with.  O_RDONLY is 0, so
\* RDONLY is the empty set; RDWR is O_RDWR = 0x2, the value of FAN_NONBLOCK.
RDONLY == {}
RDWR == {1}                \* 0x00000002
WRONLY == {0}              \* O_WRONLY = 0x00000001
NONBLOCK == {11}           \* O_NONBLOCK = 0x00000800
CLOEXEC == {19}            \* O_CLOEXEC = 0x00080000
\* the value of an expression FanotifyFlags::A | FanotifyFlags::B | .. over the
\* names the caller writes
FanotifyFlags_of(names) ==
    UNION {CASE n = "CLOEXEC" -> CLOEXEC
             [] n = "NONBLOCK" -> NONBLOCK
             [] n = "WRONLY" -> WRONLY
             [] n = "RDWR" -> RDWR
             [] OTHER -> RDONLY : n \in names}
\* linux.rs: the init flags of the protocol
FAN_CLOEXEC == {0}         \* 0x00000001
\* linux.rs: the init flag the kernel reads as "non-blocking"
FAN_NONBLOCK == {1}        \* 0x00000002
FAN_UNLIMITED_QUEUE == {4} \* 0x00000010
FAN_UNLIMITED_MARKS == {5} \* 0x00000020
FAN_REPORT_TID == {8}      \* 0x00000100
FAN_REPORT_FID == {9}      \* 0x00000200
FAN_REPORT_DIR_FID == {10} \* 0x00000400
FAN_REPORT_NAME == {11}    \* 0x00000800

\* the value of a bit set, as .bits() returns it
RECURSIVE bits(_)
bits(s) == IF s = {} THEN 0 ELSE LET b == CHOOSE x \in s : TRUE IN 2^b + bits(s \ {b})

\* MaskFlags::has_access_events, has_modify_events, has_permission_events:
\* bitflags' contains is true when every bit of its argument is set
has_access_events(mask) == (ACCESS \cup OPEN \cup ACCESS_PERM) \subseteq mask
has_modify_events(mask) ==
    (MODIFY \cup ATTRIB \cup CLOSE_WRITE \cup CREATE \cup DELETE \cup DELETE_SELF
     \cup MOVE_SELF \cup MOVED_FROM \cup MOVED_TO) \subseteq mask
has_permission_events(mask) == (OPEN_PERM \cup ACCESS_PERM) \subseteq mask


(***************************************************************************)
(* Option<T>                                                               *)
(***************************************************************************)
Some(x) == [some |-> TRUE, v |-> x]
NoFd == [some |-> FALSE, v |-> 0]
NoPath == [some |-> FALSE, v |-> ""]

(***************************************************************************)
(* linux.rs: fanotify_event_metadata, fanotify_response                    *)
(***************************************************************************)
\* size_of::<fanotify_event_metadata>()
MetadataSize == 24

\* a kernel record: the fixed header (extension bytes, if any, are counted by
\* event_len).  size is the number of its bytes a slice holds: all of them, unless
\* the slice is cut inside the record.
fanotify_event_metadata(len, m, f, p) ==
    [event_len |-> len, vers |-> 3, metadata_len |-> MetadataSize, mask |-> m, fd |-> f,
     pid |-> p, size |-> len]

\* the first n bytes of a record
Cut(rec, n) == [rec EXCEPT !.size = n]

fanotify_response(f, r) == [fd |-> f, response |-> r]

\* data.len(): the number of bytes of a slice holding the records recs back to back
RECURSIVE DataLen(_)
DataLen(recs) == IF recs = <<>> THEN 0 ELSE Head(recs).size + DataLen(Tail(recs))

(***************************************************************************)
(* event.rs: the decoder                                                   *)
(***************************************************************************)
\* MaskFlags::from_bits: None when a bit outside the named ones is set
\* from_bits as it would be if it dropped the bits it does not know
from_bits_truncate(raw) == [some |-> TRUE, v |-> raw \cap MaskFlags_all]

from_bits(raw) == IF raw \subseteq MaskFlags_all THEN [some |-> TRUE, v |-> raw]
                  ELSE [some |-> FALSE, v |-> {}]

\* the cast of the pid as it would be if it dropped the sign
as_u32_abs(i) == [hi |-> 0, lo |-> IF i >= 0 THEN i ELSE 0 - i]

\* pid: metadata.pid as u32.  The u32 is kept as its top bit and its low 31 bits.
as_u32(i) == IF i >= 0 THEN [hi |-> 0, lo |-> i] ELSE [hi |-> 1, lo |-> (i + 2147483647) + 1]

Ok(events) == [ret |-> "Ok", events |-> events]
Err(kind) == [ret |-> kind, events |-> <<>>]

\* a decoder that fails when the descriptor's path does not resolve
from_raw_data_strict(data, path) ==
    IF DataLen(data) < MetadataSize THEN Err("InvalidEventData")
    ELSE IF Head(data).fd >= 0 /\ ~path.some THEN Err("InvalidPath")
    ELSE LET mask == from_bits(Head(data).mask)
         IN IF ~mask.some THEN Err("InvalidMask")
            ELSE Ok(<< [fd |-> IF Head(data).fd >= 0 THEN Some(Head(data).fd) ELSE NoFd,
                        path |-> IF Head(data).fd >= 0 THEN path ELSE NoPath,
                        mask |-> mask.v,
                        pid |-> as_u32(Head(data).pid),
                        is_directory |-> ISDIR \subseteq mask.v,
                        raw_data |-> data] >>)

\* Event::from_raw_data on a slice holding the records data; path is what
\* get_path_from_fd gives for the record's descriptor (it is not consulted when
\* the record carries none).  One Event is built, from the head of the slice,
\* and raw_data keeps the whole slice.
from_raw_data(data, path) ==
    IF DataLen(data) < MetadataSize THEN Err("InvalidEventData")
    ELSE LET metadata == Head(data)
             mask == from_bits(metadata.mask)
         IN IF ~mask.some THEN Err("InvalidMask")
            ELSE LET fd == IF metadata.fd >= 0 THEN Some(metadata.fd) ELSE NoFd
                 IN Ok(<< [fd |-> fd,
                           path |-> IF fd.some THEN path ELSE NoPath,
                           mask |-> mask.v,
                           pid |-> as_u32(metadata.pid),
                           is_directory |-> ISDIR \subseteq mask.v,
                           raw_data |-> data] >>)

\* Event::is_permission: contains(OPEN_PERM | ACCESS_PERM)
is_permission(event) == (OPEN_PERM \cup ACCESS_PERM) \subseteq event.mask
is_access(event) == ACCESS \subseteq event.mask
is_modify(event) == MODIFY \subseteq event.mask
is_open(event) == OPEN \subseteq event.mask
is_close(event) == (CLOSE_WRITE \cup CLOSE_NOWRITE) \subseteq event.mask
is_create(event) == CREATE \subseteq event.mask
is_delete(event) == (DELETE \cup DELETE_SELF) \subseteq event.mask
is_move(event) == (MOVED_FROM \cup MOVED_TO \cup MOVE_SELF) \subseteq event.mask

\* parts.join(sep)
RECURSIVE join(_, _)
join(parts, sep) ==
    IF parts = <<>> THEN ""
    ELSE IF Len(parts) = 1 THEN parts[1]
    ELSE parts[1] \o sep \o join(Tail(parts), sep)

\* Event::description
description(event) ==
    LET part(b, name) == IF b THEN << name >> ELSE <<>>
        parts == part(is_access(event), "access") \o part(is_modify(event), "modify")
                 \o part(is_open(event), "open") \o part(is_close(event), "close")
                 \o part(is_create(event), "create") \o part(is_delete(event), "delete")
                 \o part(is_move(event), "move")
                 \o part(is_permission(event), "permission")
    IN join(IF parts = <<>> THEN << "unknown" >> ELSE parts, ", ") \o " event"

\* Event::event_type
event_type(event) ==
    IF is_access(event) THEN "ACCESS"
    ELSE IF is_modify(event) THEN "MODIFY"
    ELSE IF is_open(event) THEN "OPEN"
    ELSE IF is_close(event) THEN "CLOSE"
    ELSE IF is_create(event) THEN "CREATE"
    ELSE IF is_delete(event) THEN "DELETE"
    ELSE IF is_move(event) THEN "MOVE"
    ELSE IF is_permission(event) THEN "PERMISSION"
    ELSE "UNKNOWN"

(***************************************************************************)
(* The state: the fields of Fanotify (fanotify.rs:15-22), the caller's     *)
(* position, and the kernel side of the notification group.                *)
(***************************************************************************)
VARIABLES
    init_flags,     \* the FanotifyFlags the session was created with
    session_fd,     \* Fanotify.fd: TRUE while the Option holds the group's File
    buffer,         \* Fanotify.buffer: its length in bytes
    watched_paths,  \* Fanotify.watched_paths: path -> Option<MaskFlags>
    kq,             \* kernel: the records queued in the group, oldest first
    delivered,      \* kernel: every record a read has dequeued so far, in order
    open_fds,       \* process: the event descriptors open in its descriptor table
    kmark,          \* kernel: the mark of each filesystem entry, as a mask
    responses,      \* kernel: the response records written to the group, in order
    pc,             \* caller: "idle", or "read_events" inside that loop
    events,         \* read_events' local vector
    returned,       \* caller: every event a read call has returned so far, in order
    last_ok,        \* per path, the last mark operation the kernel confirmed
    result          \* the last call of the API: what it was given and what it returned

vars == << init_flags, session_fd, buffer, watched_paths, kq, delivered, open_fds, kmark,
           responses, pc, events, returned, last_ok, result >>

\* the paths a caller names: two spellings of one directory, another directory,
\* an absolute and a relative path that resolve to nothing, and a path with an
\* interior NUL
Paths == {"/w/a", "/w/./a", "/w/b", "/missing", "missing", "/w/a\\0"}
\* the path is relative: the kernel resolves it from the dirfd argument
Relative(path) == path = "missing"
\* CString::new(path) fails: the path has an interior NUL
HasNul(path) == path = "/w/a\\0"
\* the filesystem entry a path resolves to ("" when there is none)
Entry(path) == CASE path = "/w/a" -> "a"
                 [] path = "/w/./a" -> "a"
                 [] path = "/w/b" -> "b"
                 [] OTHER -> ""
Entries == {"a", "b"}
\* the masks a caller asks for
WatchMasks == {ACCESS, MODIFY, ACCESS \cup MODIFY}
NoMask == [some |-> FALSE, v |-> {}]

\* the buffer sizes a caller sets: room for one record, and the default
BufferSizes == {MetadataSize, 4096}

NoEvent == [fd |-> NoFd, path |-> NoPath, mask |-> {}, pid |-> as_u32(0),
            is_directory |-> FALSE, raw_data |-> <<>>]

\* what a call leaves in result: the call, its arguments, the value returned, and
\* (syscalls) the answers of the kernel calls it made, in order: "ok" or an errno
Called(op, ret, evs, ev, resp) ==
    [op |-> op, ret |-> ret, events |-> evs, event |-> ev, response |-> resp,
     path |-> "", mask |-> NoMask, data |-> <<>>, syscalls |-> <<>>, size |-> 0,
     flags |-> {}, passed |-> {}]

\* what a call on a path of the watch table leaves in result
CalledOn(op, ret, path, mask) ==
    [Called(op, ret, <<>>, NoEvent, {}) EXCEPT !.path = path, !.mask = mask]

(***************************************************************************)
(* error.rs: From<c_int> for FanotifyError                                 *)
(***************************************************************************)
from_errno(errno) == CASE errno = "ENOSYS" -> "NotSupported"
                       [] errno = "EACCES" -> "PermissionDenied"
                       [] errno = "EINVAL" -> "InvalidFlags"
                       [] errno = "ENOENT" -> "InvalidPath"
                       [] errno = "EAGAIN" -> "WouldBlock"
                       [] errno = "EBADF" -> "InvalidFd"
                       [] errno = "EOVERFLOW" -> "BufferOverflow"
                       [] OTHER -> "Io"

(***************************************************************************)
(* Fanotify::with_flags succeeded (fanotify.rs:31-49).                     *)
(***************************************************************************)
Init ==
    /\ init_flags \in {RDONLY, RDWR}
    /\ session_fd = TRUE
    /\ buffer = 4096
    /\ watched_paths = [p \in Paths |-> NoMask]
    /\ kq = <<>>
    /\ delivered = <<>>
    /\ open_fds = {}
    /\ kmark = [e \in Entries |-> {}]
    /\ responses = <<>>
    /\ pc = "idle"
    /\ events = <<>>
    /\ returned = <<>>
    /\ last_ok = [p \in Paths |-> "none"]
    /\ result = [Called("with_flags", "Ok", <<>>, NoEvent, {})
                   EXCEPT !.flags = IF init_flags = RDWR THEN {"RDWR"} ELSE {"RDONLY"},
                          !.passed = init_flags, !.syscalls = << "ok" >>]

(***************************************************************************)
(* Fanotify::with_flags from the start: the caller has no session yet.     *)
(***************************************************************************)
InitCreate ==
    /\ init_flags = {}
    /\ session_fd = FALSE
    /\ buffer = 0
    /\ watched_paths = [p \in Paths |-> NoMask]
    /\ kq = <<>>
    /\ delivered = <<>>
    /\ open_fds = {}
    /\ kmark = [e \in Entries |-> {}]
    /\ responses = <<>>
    /\ pc = "new"
    /\ events = <<>>
    /\ returned = <<>>
    /\ last_ok = [p \in Paths |-> "none"]
    /\ result = Called("none", "Ok", <<>>, NoEvent, {})

\* the flags a caller creates a session with: RDONLY, the default
\* (RDONLY | CLOEXEC), NONBLOCK, RDWR, CLOEXEC | NONBLOCK
FlagSelections == {{"RDONLY"}, {"RDONLY", "CLOEXEC"}, {"NONBLOCK"}, {"RDWR"},
                   {"CLOEXEC", "NONBLOCK"}}

\* the init flags the kernel knows
FAN_INIT_FLAGS == FAN_CLOEXEC \cup FAN_NONBLOCK \cup FAN_UNLIMITED_QUEUE
                  \cup FAN_UNLIMITED_MARKS \cup FAN_REPORT_TID \cup FAN_REPORT_FID
                  \cup FAN_REPORT_DIR_FID \cup FAN_REPORT_NAME

\* fanotify_init: the errno, or "ok".  The call is absent from the kernel
\* (ENOSYS) or refused to a caller without the capability (EPERM); the kernel
\* rejects a bit it does not know and FAN_REPORT_NAME without
\* FAN_REPORT_DIR_FID; k is its answer otherwise.
fanotify_init(flags, k) ==
    IF k \in {"ENOSYS", "EPERM"} THEN k
    ELSE IF flags \ FAN_INIT_FLAGS # {} THEN "EINVAL"
    ELSE IF FAN_REPORT_NAME \subseteq flags /\ ~(FAN_REPORT_DIR_FID \subseteq flags)
    THEN "EINVAL"
    ELSE k

\* a call of Fanotify::with_flags (Fanotify::new is the call with the default)
WithFlags ==
    /\ pc = "new"
    /\ \E names \in FlagSelections, k \in {"ok", "ENOSYS", "EPERM", "EMFILE"} :
         LET flags == FanotifyFlags_of(names)
             r == fanotify_init(flags, k)
         IN IF r # "ok"
            THEN /\ result' = [Called("with_flags", from_errno(r), <<>>, NoEvent, {})
                                 EXCEPT !.flags = names, !.passed = flags,
                                        !.syscalls = << r >>]
                 /\ UNCHANGED << init_flags, session_fd, buffer, watched_paths, pc >>
            ELSE /\ init_flags' = flags
                 /\ session_fd' = TRUE
                 /\ buffer' = 4096
                 /\ watched_paths' = [p \in Paths |-> NoMask]
                 /\ pc' = "idle"
                 /\ result' = [Called("with_flags", "Ok", <<>>, NoEvent, {})
                                 EXCEPT !.flags = names, !.passed = flags,
                                        !.syscalls = << r >>]
    /\ UNCHANGED << kq, delivered, open_fds, kmark, responses, events, returned, last_ok >>

\* the group reads without blocking when the init call was given FAN_NONBLOCK
Nonblocking == FAN_NONBLOCK \subseteq init_flags

(***************************************************************************)
(* The kernel queues a record for a watched entry.  Every record that      *)
(* carries a descriptor gets a fresh one; Q_OVERFLOW carries none.         *)
(***************************************************************************)
EmitMasks == {ACCESS, OPEN_PERM, OPEN_PERM \cup ACCESS_PERM, ACCESS \cup FAN_EVENT_ON_CHILD}

KernelEmitOf(masks) ==
    /\ Len(kq) + Len(delivered) < MaxEmit
    /\ \E m \in masks :
         LET n == Len(kq) + Len(delivered)
             f == IF m = Q_OVERFLOW THEN -1 ELSE 4 + n
         IN kq' = Append(kq, fanotify_event_metadata(MetadataSize, m, f, 1000 + n))
    /\ UNCHANGED << init_flags, session_fd, buffer, watched_paths, delivered, open_fds, kmark,
                    responses, pc, events, returned, last_ok, result >>

KernelEmit == KernelEmitOf(EmitMasks)

(***************************************************************************)
(* read(2) on the group: as many whole records as fit the buffer.          *)
(***************************************************************************)
RECURSIVE FitCount(_, _)
FitCount(q, room) ==
    IF q = <<>> \/ Head(q).event_len > room THEN 0
    ELSE 1 + FitCount(Tail(q), room - Head(q).event_len)

\* the outcome of f.read(&mut self.buffer): the records copied, or an error
\* (k is the kernel's answer: "ok", or the errno of a call it fails)
KernelRead(k) ==
    IF k # "ok" THEN [kind |-> "Err", errno |-> k, recs |-> <<>>]
    ELSE IF kq = <<>> THEN [kind |-> "WouldBlock", errno |-> "EAGAIN", recs |-> <<>>]
    ELSE IF FitCount(kq, buffer) = 0 THEN [kind |-> "Err", errno |-> "EINVAL", recs |-> <<>>]
    ELSE [kind |-> "Ok", errno |-> "ok", recs |-> SubSeq(kq, 1, FitCount(kq, buffer))]

\* a blocking read waits while the queue is empty
ReadReturns(k) == k # "ok" \/ kq # <<>> \/ Nonblocking

\* the path readlink gives for a descriptor, or none when it fails
PathResolutions == {NoPath, Some("/w/a/f")}

\* read_event as it would be if it handed the would-block of an empty queue to
\* the caller as the error of that name
read_event_wouldblock(k, path) ==
    IF ~session_fd THEN [val |-> Ok(<<>>), recs |-> <<>>, calls |-> <<>>]
    ELSE LET r == KernelRead(k)
         IN CASE r.kind = "WouldBlock" ->
                   [val |-> Err("WouldBlock"), recs |-> <<>>, calls |-> << r.errno >>]
              [] r.kind = "Err" -> [val |-> Err("Io"), recs |-> <<>>, calls |-> << r.errno >>]
              [] OTHER -> [val |-> from_raw_data(r.recs, path), recs |-> r.recs,
                           calls |-> << r.errno >>]

\* Fanotify::read_event: the value returned, with the records the read dequeued
\* and the answer of the read it made (none without a handle)
read_event(k, path) ==
    IF ~session_fd THEN [val |-> Ok(<<>>), recs |-> <<>>, calls |-> <<>>]
    ELSE LET r == KernelRead(k)
         IN CASE r.kind = "WouldBlock" -> [val |-> Ok(<<>>), recs |-> <<>>, calls |-> << r.errno >>]
              [] r.kind = "Err" -> [val |-> Err("Io"), recs |-> <<>>, calls |-> << r.errno >>]
              [] OTHER -> IF DataLen(r.recs) = 0
                          THEN [val |-> Ok(<<>>), recs |-> r.recs, calls |-> << r.errno >>]
                          ELSE [val |-> from_raw_data(r.recs, path), recs |-> r.recs,
                                calls |-> << r.errno >>]

\* the kernel side of a read that dequeued recs
Dequeue(recs) ==
    /\ kq' = SubSeq(kq, Len(recs) + 1, Len(kq))
    /\ delivered' = delivered \o recs
    /\ open_fds' = open_fds \cup {recs[i].fd : i \in {j \in 1..Len(recs) : recs[j].fd >= 0}}

\* the descriptors of the permission events among evs, each answered with Allow
RECURSIVE DefaultAllow(_)
DefaultAllow(evs) ==
    IF evs = <<>> THEN <<>>
    ELSE (IF Head(evs).fd.some /\ Head(evs).mask \cap (OPEN_PERM \cup ACCESS_PERM) # {}
          THEN << fanotify_response(Head(evs).fd.v, bits(ALLOW)) >> ELSE <<>>)
         \o DefaultAllow(Tail(evs))

\* read_event as it would be if the core answered a permission event itself, with
\* Allow, when it returns it
ReadEvent_default_allow ==
    /\ pc = "idle"
    /\ \E k \in {"ok", "EINTR"}, path \in PathResolutions :
         /\ ReadReturns(k)
         /\ LET o == read_event(k, path)
            IN /\ Dequeue(o.recs)
               /\ returned' = returned \o o.val.events
               /\ responses' = responses \o DefaultAllow(o.val.events)
               /\ result' = [Called("read_event", o.val.ret, o.val.events, NoEvent, {})
                               EXCEPT !.syscalls = o.calls]
    /\ UNCHANGED << init_flags, session_fd, buffer, watched_paths, kmark,
                    pc, events, last_ok >>

\* read_event as it would be if a decode error closed the session's handle
\* read_event as it would be if it closed the descriptors of the events it
\* returned before, as an event type owning its descriptor would on reuse
ReadEvent_close ==
    /\ pc = "idle"
    /\ \E k \in {"ok", "EINTR"}, path \in PathResolutions :
         /\ ReadReturns(k)
         /\ LET o == read_event(k, path)
            IN /\ kq' = SubSeq(kq, Len(o.recs) + 1, Len(kq))
               /\ delivered' = delivered \o o.recs
               /\ open_fds' = {o.recs[i].fd : i \in {j \in 1..Len(o.recs) : o.recs[j].fd >= 0}}
               /\ returned' = returned \o o.val.events
               /\ result' = [Called("read_event", o.val.ret, o.val.events, NoEvent, {})
                               EXCEPT !.syscalls = o.calls]
    /\ UNCHANGED << init_flags, session_fd, buffer, watched_paths, kmark, responses,
                    pc, events, last_ok >>

\* read_event as it would be if a failed read took the handle out of the session
ReadEvent_take ==
    /\ pc = "idle"
    /\ \E k \in {"ok", "EINTR"}, path \in PathResolutions :
         /\ ReadReturns(k)
         /\ LET o == read_event(k, path)
            IN /\ Dequeue(o.recs)
               /\ returned' = returned \o o.val.events
               /\ session_fd' = (session_fd /\ o.val.ret # "Io")
               /\ result' = [Called("read_event", o.val.ret, o.val.events, NoEvent, {})
                               EXCEPT !.syscalls = o.calls]
    /\ UNCHANGED << init_flags, buffer, watched_paths, kmark, responses,
                    pc, events, last_ok >>

\* read_event as it would be if a failed decode closed the session
ReadEvent_poison ==
    /\ pc = "idle"
    /\ \E k \in {"ok", "EINTR"}, path \in PathResolutions :
         /\ ReadReturns(k)
         /\ LET o == read_event(k, path)
            IN /\ Dequeue(o.recs)
               /\ returned' = returned \o o.val.events
               /\ session_fd' = (session_fd /\ o.val.ret \notin {"InvalidMask", "InvalidEventData"})
               /\ result' = [Called("read_event", o.val.ret, o.val.events, NoEvent, {})
                               EXCEPT !.syscalls = o.calls]
    /\ UNCHANGED << init_flags, buffer, watched_paths, kmark, responses,
                    pc, events, last_ok >>

\* read_event as it would be if it doubled a buffer that a read had filled
ReadEvent_grow ==
    /\ pc = "idle"
    /\ \E k \in {"ok", "EINTR"}, path \in PathResolutions :
         /\ ReadReturns(k)
         /\ LET o == read_event(k, path)
            IN /\ Dequeue(o.recs)
               /\ returned' = returned \o o.val.events
               /\ buffer' = IF DataLen(o.recs) = buffer THEN 2 * buffer ELSE buffer
               /\ result' = [Called("read_event", o.val.ret, o.val.events, NoEvent, {})
                               EXCEPT !.syscalls = o.calls]
    /\ UNCHANGED << init_flags, session_fd, watched_paths, kmark, responses,
                    pc, events, last_ok >>

\* a call of Fanotify::read_event
ReadEvent ==
    /\ pc = "idle"
    /\ \E k \in {"ok", "EINTR"}, path \in PathResolutions :
         /\ ReadReturns(k)
         /\ LET o == read_event(k, path)
            IN /\ Dequeue(o.recs)
               /\ returned' = returned \o o.val.events
               /\ result' = [Called("read_event", o.val.ret, o.val.events, NoEvent, {})
                               EXCEPT !.syscalls = o.calls]
    /\ UNCHANGED << init_flags, session_fd, buffer, watched_paths, kmark, responses,
                    pc, events, last_ok >>

\* the reads behind the events pushed so far: one read that succeeded for each
Reads(sofar) == [i \in 1..Len(sofar) |-> "ok"]

\* one turn of the loop of Fanotify::read_events, with the vector so far
ReadEventsTurn(sofar) ==
    \E k \in {"ok", "EINTR"}, path \in PathResolutions :
      /\ ReadReturns(k)
      /\ LET o == read_event(k, path)
         IN /\ Dequeue(o.recs)
            /\ IF o.val.ret # "Ok"
               THEN /\ pc' = "idle" /\ events' = <<>>
                    /\ returned' = returned
                    /\ result' = [Called("read_events", o.val.ret, <<>>, NoEvent, {})
                                    EXCEPT !.syscalls = Reads(sofar) \o o.calls]
               ELSE IF o.val.events # <<>>
               THEN /\ pc' = "read_events" /\ events' = sofar \o o.val.events
                    /\ UNCHANGED << returned, result >>
               ELSE /\ pc' = "idle" /\ events' = <<>>
                    /\ returned' = returned \o sofar
                    /\ result' = [Called("read_events", "Ok", sofar, NoEvent, {})
                                    EXCEPT !.syscalls = Reads(sofar) \o o.calls]

\* a call of Fanotify::read_events, up to its first read
ReadEvents ==
    /\ pc = "idle"
    /\ ReadEventsTurn(<<>>)
    /\ UNCHANGED << init_flags, session_fd, buffer, watched_paths, kmark, responses, last_ok >>

\* the loop of Fanotify::read_events goes round again
ReadEventsLoop ==
    /\ pc = "read_events"
    /\ ReadEventsTurn(events)
    /\ UNCHANGED << init_flags, session_fd, buffer, watched_paths, kmark, responses, last_ok >>

\* Fanotify::buffer_size
buffer_size == buffer

\* Fanotify::set_buffer_size
SetBufferSize ==
    /\ pc = "idle"
    /\ \E size \in BufferSizes :
         /\ buffer' = size
         /\ result' = [Called("set_buffer_size", "Ok", <<>>, NoEvent, {}) EXCEPT !.size = size]
    /\ UNCHANGED << init_flags, session_fd, watched_paths, kq, delivered, open_fds, kmark, responses,
                    pc, events, returned, last_ok >>

(***************************************************************************)
(* Fanotify::respond, allow, deny                                          *)
(***************************************************************************)
\* the events the caller holds: those the reads have returned
Held == {returned[i] : i \in 1..Len(returned)}

\* respond as it would be with the record's fd taken from the event's pid field
respond_pid(event, response, k) ==
    IF ~is_permission(event) THEN [ret |-> "InvalidEventData", written |-> <<>>, calls |-> <<>>]
    ELSE IF ~event.fd.some THEN [ret |-> "InvalidEventData", written |-> <<>>, calls |-> <<>>]
    ELSE IF ~session_fd THEN [ret |-> from_errno("EBADF"), written |-> <<>>, calls |-> << "EBADF" >>]
    ELSE IF k # "ok" THEN [ret |-> from_errno(k), written |-> <<>>, calls |-> << k >>]
    ELSE [ret |-> "Ok", written |-> << fanotify_response(event.pid.lo, bits(response)) >>,
          calls |-> << "ok" >>]

\* respond as it would be with the record's fd taken from the session's own handle
respond_session_fd(event, response, k) ==
    IF ~is_permission(event) THEN [ret |-> "InvalidEventData", written |-> <<>>, calls |-> <<>>]
    ELSE IF ~event.fd.some THEN [ret |-> "InvalidEventData", written |-> <<>>, calls |-> <<>>]
    ELSE IF ~session_fd THEN [ret |-> from_errno("EBADF"), written |-> <<>>, calls |-> << "EBADF" >>]
    ELSE IF k # "ok" THEN [ret |-> from_errno(k), written |-> <<>>, calls |-> << k >>]
    ELSE [ret |-> "Ok", written |-> << fanotify_response(3, bits(response)) >>,
          calls |-> << "ok" >>]

\* respond as it would be if the response record were kept between calls and its
\* fd not refreshed after a call that succeeded
respond_stale(event, response, k) ==
    IF ~is_permission(event) THEN [ret |-> "InvalidEventData", written |-> <<>>, calls |-> <<>>]
    ELSE IF ~event.fd.some THEN [ret |-> "InvalidEventData", written |-> <<>>, calls |-> <<>>]
    ELSE IF ~session_fd THEN [ret |-> from_errno("EBADF"), written |-> <<>>, calls |-> << "EBADF" >>]
    ELSE IF k # "ok" THEN [ret |-> from_errno(k), written |-> <<>>, calls |-> << k >>]
    ELSE LET f == IF result.op = "respond" /\ result.ret = "Ok" THEN result.event.fd.v
                  ELSE event.fd.v
         IN [ret |-> "Ok", written |-> << fanotify_response(f, bits(response)) >>,
          calls |-> << "ok" >>]

\* Fanotify::respond: the value returned, with the records written to the group.
\* k is the kernel's answer to the write.
respond(event, response, k) ==
    IF ~is_permission(event) THEN [ret |-> "InvalidEventData", written |-> <<>>, calls |-> <<>>]
    ELSE IF ~event.fd.some THEN [ret |-> "InvalidEventData", written |-> <<>>, calls |-> <<>>]
    ELSE IF ~session_fd THEN [ret |-> from_errno("EBADF"), written |-> <<>>, calls |-> << "EBADF" >>]
    ELSE IF k # "ok" THEN [ret |-> from_errno(k), written |-> <<>>, calls |-> << k >>]
    ELSE [ret |-> "Ok", written |-> << fanotify_response(event.fd.v, bits(response)) >>,
          calls |-> << "ok" >>]

\* a call of respond (allow and deny are calls of respond)
RespondCall(event, response, k) ==
    /\ pc = "idle"
    /\ LET o == respond(event, response, k)
       IN /\ Len(responses) + Len(o.written) <= MaxResponses
          /\ responses' = responses \o o.written
          /\ result' = [Called("respond", o.ret, <<>>, event, response)
                          EXCEPT !.syscalls = o.calls]
    /\ UNCHANGED << init_flags, session_fd, buffer, watched_paths, kq, delivered, open_fds, kmark,
                    pc, events, returned, last_ok >>

Respond == \E event \in Held, response \in EventFlags_values, k \in {"ok", "ENOENT"} :
             RespondCall(event, response, k)

\* Fanotify::allow
Allow == \E event \in Held, k \in {"ok", "ENOENT"} : RespondCall(event, ALLOW, k)

\* Fanotify::deny
Deny == \E event \in Held, k \in {"ok", "ENOENT"} : RespondCall(event, DENY, k)

(***************************************************************************)
(* Fanotify::add_watch, remove_watch and the kernel's marks                *)
(***************************************************************************)
FAN_MARK_ADD == {0}        \* 0x00000001
FAN_MARK_REMOVE == {1}     \* 0x00000002

\* what the descriptor numbered AT_SYMLINK_NOFOLLOW, which add_watch and
\* remove_watch pass as dirfd, is in the process: not open, or an open directory
DirFds == {"closed", "dir"}

\* fanotify_mark: the errno, or "ok".  The kernel rejects an empty mask, resolves
\* a relative path from dirfd, fails on a path that resolves to nothing, and has
\* nothing to remove from an entry without a mark; k is its answer otherwise.
fanotify_mark(flags, mask, dirfd, path, k) ==
    IF mask = {} THEN "EINVAL"
    ELSE IF Relative(path) /\ dirfd = "closed" THEN "EBADF"
    ELSE IF Entry(path) = "" THEN "ENOENT"
    ELSE IF flags = FAN_MARK_REMOVE /\ kmark[Entry(path)] = {} THEN "ENOENT"
    ELSE k

\* the marks after a call the kernel accepted: ADD ors the mask in, REMOVE clears it
MarkAdd(path, mask) == [kmark EXCEPT ![Entry(path)] = @ \cup mask]
MarkRemove(path, mask) == [kmark EXCEPT ![Entry(path)] = @ \ mask]

\* is_watched as it would be if it asked whether the entry the path names is
\* watched under any spelling
is_watched_entry(path) ==
    \E p \in Paths : Entry(p) # "" /\ Entry(p) = Entry(path) /\ watched_paths[p].some

\* Fanotify::is_watched
is_watched(path) == watched_paths[path].some

\* Fanotify::get_mask
get_mask(path) == watched_paths[path]

\* add_watch as it would be with the table updated before the kernel's answer is
\* looked at
AddWatch_optimistic ==
    /\ pc = "idle"
    /\ \E path \in Paths, mask \in WatchMasks, dirfd \in DirFds, k \in {"ok", "ENOSPC"} :
         IF HasNul(path)
         THEN /\ result' = CalledOn("add_watch", "InvalidPath", path, Some(mask))
              /\ UNCHANGED << watched_paths, kmark, last_ok >>
         ELSE LET r == fanotify_mark(FAN_MARK_ADD, mask, dirfd, path, k)
              IN /\ watched_paths' = [watched_paths EXCEPT ![path] = Some(mask)]
                 /\ IF r # "ok"
                    THEN /\ result' = CalledOn("add_watch", from_errno(r), path, Some(mask))
                         /\ UNCHANGED << kmark, last_ok >>
                    ELSE /\ kmark' = MarkAdd(path, mask)
                         /\ last_ok' = [last_ok EXCEPT ![path] = "add"]
                         /\ result' = CalledOn("add_watch", "Ok", path, Some(mask))
    /\ UNCHANGED << init_flags, session_fd, buffer, kq, delivered, open_fds, responses, pc, events,
                    returned >>

\* add_watch as it would be if it merged the new mask into the one recorded
AddWatch_union ==
    /\ pc = "idle"
    /\ \E path \in Paths, mask \in WatchMasks, dirfd \in DirFds, k \in {"ok", "ENOSPC"} :
         IF HasNul(path)
         THEN /\ result' = CalledOn("add_watch", "InvalidPath", path, Some(mask))
              /\ UNCHANGED << watched_paths, kmark, last_ok >>
         ELSE LET r == fanotify_mark(FAN_MARK_ADD, mask, dirfd, path, k)
              IN IF r # "ok"
                 THEN /\ result' = CalledOn("add_watch", from_errno(r), path, Some(mask))
                      /\ UNCHANGED << watched_paths, kmark, last_ok >>
                 ELSE /\ kmark' = MarkAdd(path, mask)
                      /\ last_ok' = [last_ok EXCEPT ![path] = "add"]
                      /\ watched_paths' = [watched_paths EXCEPT
                                             ![path] = Some(@.v \cup mask)]
                      /\ result' = CalledOn("add_watch", "Ok", path, Some(mask))
    /\ UNCHANGED << init_flags, session_fd, buffer, kq, delivered, open_fds, responses, pc, events,
                    returned >>

\* add_watch as it would be if it gave the kernel a second try after a failure
AddWatch_retry ==
    /\ pc = "idle"
    /\ \E path \in Paths, mask \in WatchMasks, dirfd \in DirFds, k \in {"ok", "ENOSPC"} :
         IF HasNul(path)
         THEN /\ result' = CalledOn("add_watch", "InvalidPath", path, Some(mask))
              /\ UNCHANGED << watched_paths, kmark, last_ok >>
         ELSE LET r1 == fanotify_mark(FAN_MARK_ADD, mask, dirfd, path, k)
                  r == IF r1 = "ok" THEN r1 ELSE fanotify_mark(FAN_MARK_ADD, mask, dirfd, path, k)
                  calls == IF r1 = "ok" THEN << r1 >> ELSE << r1, r >>
              IN IF r # "ok"
                 THEN /\ result' = [CalledOn("add_watch", from_errno(r), path, Some(mask))
                                      EXCEPT !.syscalls = calls]
                      /\ UNCHANGED << watched_paths, kmark, last_ok >>
                 ELSE /\ kmark' = MarkAdd(path, mask)
                      /\ last_ok' = [last_ok EXCEPT ![path] = "add"]
                      /\ watched_paths' = [watched_paths EXCEPT ![path] = Some(mask)]
                      /\ result' = [CalledOn("add_watch", "Ok", path, Some(mask))
                                      EXCEPT !.syscalls = calls]
    /\ UNCHANGED << init_flags, session_fd, buffer, kq, delivered, open_fds, responses, pc, events,
                    returned >>

\* a call of Fanotify::add_watch
AddWatch ==
    /\ pc = "idle"
    /\ \E path \in Paths, mask \in WatchMasks, dirfd \in DirFds, k \in {"ok", "ENOSPC"} :
         IF HasNul(path)
         THEN /\ result' = CalledOn("add_watch", "InvalidPath", path, Some(mask))
              /\ UNCHANGED << watched_paths, kmark, last_ok >>
         ELSE LET r == fanotify_mark(FAN_MARK_ADD, mask, dirfd, path, k)
              IN IF r # "ok"
                 THEN /\ result' = [CalledOn("add_watch", from_errno(r), path, Some(mask))
                                      EXCEPT !.syscalls = << r >>]
                      /\ UNCHANGED << watched_paths, kmark, last_ok >>
                 ELSE /\ kmark' = MarkAdd(path, mask)
                      /\ last_ok' = [last_ok EXCEPT ![path] = "add"]
                      /\ watched_paths' = [watched_paths EXCEPT ![path] = Some(mask)]
                      /\ result' = [CalledOn("add_watch", "Ok", path, Some(mask))
                                      EXCEPT !.syscalls = << r >>]
    /\ UNCHANGED << init_flags, session_fd, buffer, kq, delivered, open_fds, responses, pc, events,
                    returned >>

\* a call of Fanotify::remove_watch; result keeps the table's entry for the path
\* as the call found it
RemoveWatch ==
    /\ pc = "idle"
    /\ \E path \in Paths, dirfd \in DirFds, k \in {"ok", "ENOMEM"} :
         IF HasNul(path)
         THEN /\ result' = CalledOn("remove_watch", "InvalidPath", path, get_mask(path))
              /\ UNCHANGED << watched_paths, kmark, last_ok >>
         ELSE LET mask == IF get_mask(path).some THEN get_mask(path).v ELSE {}
                  r == fanotify_mark(FAN_MARK_REMOVE, mask, dirfd, path, k)
              IN IF r # "ok"
                 THEN /\ result' = [CalledOn("remove_watch", from_errno(r), path, get_mask(path))
                                      EXCEPT !.syscalls = << r >>]
                      /\ UNCHANGED << watched_paths, kmark, last_ok >>
                 ELSE /\ kmark' = MarkRemove(path, mask)
                      /\ last_ok' = [last_ok EXCEPT ![path] = "remove"]
                      /\ watched_paths' = [watched_paths EXCEPT ![path] = NoMask]
                      /\ result' = [CalledOn("remove_watch", "Ok", path, get_mask(path))
                                      EXCEPT !.syscalls = << r >>]
    /\ UNCHANGED << init_flags, session_fd, buffer, kq, delivered, open_fds, responses, pc, events,
                    returned >>

\* the value of a bool as result keeps it
Bool(b) == IF b THEN "true" ELSE "false"

\* a call of Fanotify::is_watched
IsWatched ==
    /\ pc = "idle"
    /\ \E path \in Paths : result' = CalledOn("is_watched", Bool(is_watched(path)), path, NoMask)
    /\ UNCHANGED << init_flags, session_fd, buffer, watched_paths, kq, delivered, open_fds, kmark,
                    responses, pc, events, returned, last_ok >>

\* a call of Fanotify::get_mask
GetMask ==
    /\ pc = "idle"
    /\ \E path \in Paths : result' = CalledOn("get_mask", "Ok", path, get_mask(path))
    /\ UNCHANGED << init_flags, session_fd, buffer, watched_paths, kq, delivered, open_fds, kmark,
                    responses, pc, events, returned, last_ok >>

\* a call of Fanotify::watched_paths: a reference to the table
WatchedPaths ==
    /\ pc = "idle"
    /\ result' = Called("watched_paths", "Ok", <<>>, NoEvent, {})
    /\ UNCHANGED << init_flags, session_fd, buffer, watched_paths, kq, delivered, open_fds, kmark,
                    responses, pc, events, returned, last_ok >>

(***************************************************************************)
(* The asynchronous adapter (async_fanotify.rs): AsyncFanotify has the     *)
(* fields of Fanotify, its handle a tokio File that is always present.     *)
(* Its operations are modelled on the same session state; the synchronous  *)
(* add_watch and remove_watch are given as operators to compare them with. *)
(***************************************************************************)
\* Fanotify::add_watch: the value returned, the kernel call made, and the table
\* and the marks it leaves
add_watch(path, mask, dirfd, k) ==
    IF HasNul(path)
    THEN [ret |-> "InvalidPath", calls |-> <<>>, table |-> watched_paths, marks |-> kmark]
    ELSE LET r == fanotify_mark(FAN_MARK_ADD, mask, dirfd, path, k)
         IN IF r # "ok"
            THEN [ret |-> from_errno(r), calls |-> << r >>, table |-> watched_paths,
                  marks |-> kmark]
            ELSE [ret |-> "Ok", calls |-> << r >>,
                  table |-> [watched_paths EXCEPT ![path] = Some(mask)],
                  marks |-> MarkAdd(path, mask)]

\* Fanotify::remove_watch
remove_watch(path, dirfd, k) ==
    IF HasNul(path)
    THEN [ret |-> "InvalidPath", calls |-> <<>>, table |-> watched_paths, marks |-> kmark]
    ELSE LET mask == IF get_mask(path).some THEN get_mask(path).v ELSE {}
             r == fanotify_mark(FAN_MARK_REMOVE, mask, dirfd, path, k)
         IN IF r # "ok"
            THEN [ret |-> from_errno(r), calls |-> << r >>, table |-> watched_paths,
                  marks |-> kmark]
            ELSE [ret |-> "Ok", calls |-> << r >>,
                  table |-> [watched_paths EXCEPT ![path] = NoMask],
                  marks |-> MarkRemove(path, mask)]

\* AsyncFanotify::add_watch
async_add_watch(path, mask, dirfd, k) ==
    IF HasNul(path)
    THEN [ret |-> "InvalidPath", calls |-> <<>>, table |-> watched_paths, marks |-> kmark]
    ELSE LET r == fanotify_mark(FAN_MARK_ADD, mask, dirfd, path, k)
         IN IF r # "ok"
            THEN [ret |-> from_errno(r), calls |-> << r >>, table |-> watched_paths,
                  marks |-> kmark]
            ELSE [ret |-> "Ok", calls |-> << r >>,
                  table |-> [watched_paths EXCEPT ![path] = Some(mask)],
                  marks |-> MarkAdd(path, mask)]

\* AsyncFanotify::remove_watch
async_remove_watch(path, dirfd, k) ==
    IF HasNul(path)
    THEN [ret |-> "InvalidPath", calls |-> <<>>, table |-> watched_paths, marks |-> kmark]
    ELSE LET mask == IF get_mask(path).some THEN get_mask(path).v ELSE {}
             r == fanotify_mark(FAN_MARK_REMOVE, mask, dirfd, path, k)
         IN IF r # "ok"
            THEN [ret |-> from_errno(r), calls |-> << r >>, table |-> watched_paths,
                  marks |-> kmark]
            ELSE [ret |-> "Ok", calls |-> << r >>,
                  table |-> [watched_paths EXCEPT ![path] = NoMask],
                  marks |-> MarkRemove(path, mask)]

\* AsyncFanotify::read_event: self.fd.read(..).await is the read(2) of the
\* handle, and every error of it, the would-block of an empty queue included,
\* is returned as Io
async_read_event(k, path) ==
    LET r == KernelRead(k)
    IN IF r.kind # "Ok" THEN [val |-> Err("Io"), recs |-> <<>>, calls |-> << r.errno >>]
       ELSE IF DataLen(r.recs) = 0
       THEN [val |-> Ok(<<>>), recs |-> r.recs, calls |-> << r.errno >>]
       ELSE [val |-> from_raw_data(r.recs, path), recs |-> r.recs, calls |-> << r.errno >>]

\* AsyncFanotify::respond
async_respond(event, response, k) ==
    IF ~is_permission(event) THEN [ret |-> "InvalidEventData", written |-> <<>>, calls |-> <<>>]
    ELSE IF ~event.fd.some THEN [ret |-> "InvalidEventData", written |-> <<>>, calls |-> <<>>]
    ELSE IF k # "ok" THEN [ret |-> from_errno(k), written |-> <<>>, calls |-> << k >>]
    ELSE [ret |-> "Ok", written |-> << fanotify_response(event.fd.v, bits(response)) >>,
          calls |-> << "ok" >>]

\* a call of AsyncFanotify::add_watch
AsyncAddWatch ==
    /\ pc = "idle"
    /\ \E path \in Paths, mask \in WatchMasks, dirfd \in DirFds, k \in {"ok", "ENOSPC"} :
         LET o == async_add_watch(path, mask, dirfd, k)
         IN /\ watched_paths' = o.table
            /\ kmark' = o.marks
            /\ last_ok' = IF o.ret = "Ok" THEN [last_ok EXCEPT ![path] = "add"] ELSE last_ok
            /\ result' = [CalledOn("async_add_watch", o.ret, path, Some(mask))
                            EXCEPT !.syscalls = o.calls]
    /\ UNCHANGED << init_flags, session_fd, buffer, kq, delivered, open_fds, responses, pc, events,
                    returned >>

\* a call of AsyncFanotify::remove_watch; result keeps the table's entry for the
\* path as the call found it
AsyncRemoveWatch ==
    /\ pc = "idle"
    /\ \E path \in Paths, dirfd \in DirFds, k \in {"ok", "ENOMEM"} :
         LET o == async_remove_watch(path, dirfd, k)
         IN /\ watched_paths' = o.table
            /\ kmark' = o.marks
            /\ last_ok' = IF o.ret = "Ok" THEN [last_ok EXCEPT ![path] = "remove"] ELSE last_ok
            /\ result' = [CalledOn("async_remove_watch", o.ret, path, get_mask(path))
                            EXCEPT !.syscalls = o.calls]
    /\ UNCHANGED << init_flags, session_fd, buffer, kq, delivered, open_fds, responses, pc, events,
                    returned >>

\* a call of AsyncFanotify::read_event
AsyncReadEvent ==
    /\ pc = "idle"
    /\ \E k \in {"ok", "EINTR"}, path \in PathResolutions :
         /\ ReadReturns(k)
         /\ LET o == async_read_event(k, path)
            IN /\ Dequeue(o.recs)
               /\ returned' = returned \o o.val.events
               /\ result' = [Called("async_read_event", o.val.ret, o.val.events, NoEvent, {})
                               EXCEPT !.syscalls = o.calls]
    /\ UNCHANGED << init_flags, session_fd, buffer, watched_paths, kmark, responses,
                    pc, events, last_ok >>

\* one turn of the loop of AsyncFanotify::read_events, with the vector so far
AsyncReadEventsTurn(sofar) ==
    \E k \in {"ok", "EINTR"}, path \in PathResolutions :
      /\ ReadReturns(k)
      /\ LET o == async_read_event(k, path)
         IN /\ Dequeue(o.recs)
            /\ IF o.val.ret # "Ok"
               THEN /\ pc' = "idle" /\ events' = <<>>
                    /\ returned' = returned
                    /\ result' = [Called("async_read_events", o.val.ret, <<>>, NoEvent, {})
                                    EXCEPT !.syscalls = Reads(sofar) \o o.calls]
               ELSE IF o.val.events # <<>>
               THEN /\ pc' = "async_read_events" /\ events' = sofar \o o.val.events
                    /\ UNCHANGED << returned, result >>
               ELSE /\ pc' = "idle" /\ events' = <<>>
                    /\ returned' = returned \o sofar
                    /\ result' = [Called("async_read_events", "Ok", sofar, NoEvent, {})
                                    EXCEPT !.syscalls = Reads(sofar) \o o.calls]

\* a call of AsyncFanotify::read_events, up to its first read
AsyncReadEvents ==
    /\ pc = "idle"
    /\ AsyncReadEventsTurn(<<>>)
    /\ UNCHANGED << init_flags, session_fd, buffer, watched_paths, kmark, responses, last_ok >>

\* the loop of AsyncFanotify::read_events goes round again
AsyncReadEventsLoop ==
    /\ pc = "async_read_events"
    /\ AsyncReadEventsTurn(events)
    /\ UNCHANGED << init_flags, session_fd, buffer, watched_paths, kmark, responses, last_ok >>

\* a call of AsyncFanotify::respond (allow and deny are calls of respond)
AsyncRespond ==
    /\ pc = "idle"
    /\ \E event \in Held, response \in {ALLOW, DENY}, k \in {"ok", "ENOENT"} :
         LET o == async_respond(event, response, k)
         IN /\ Len(responses) + Len(o.written) <= MaxResponses
            /\ responses' = responses \o o.written
            /\ result' = [Called("async_respond", o.ret, <<>>, event, response)
                            EXCEPT !.syscalls = o.calls]
    /\ UNCHANGED << init_flags, session_fd, buffer, watched_paths, kq, delivered, open_fds, kmark,
                    pc, events, returned, last_ok >>

(***************************************************************************)
(* The caller decodes a slice of its own with Event::from_raw_data.        *)
(***************************************************************************)
\* the records of such a slice
SliceRecords == {fanotify_event_metadata(MetadataSize, m, f, 1000) :
                   m \in {ACCESS, ACCESS \cup FAN_EVENT_ON_CHILD}, f \in {4}}

\* a record whose event_len field declares len bytes, whatever it occupies
Declared(rec, len) == [rec EXCEPT !.event_len = len]

\* records at the edges of the header's i32 fields: the queue-overflow record
\* (no descriptor), and a negative descriptor with a pid whose top bit is set
EdgeRecords == {fanotify_event_metadata(MetadataSize, Q_OVERFLOW, -1, 1000),
                fanotify_event_metadata(MetadataSize, ACCESS, -2, -5)}

\* a record followed by extension records: it declares, and occupies, the
\* header and as many bytes again
Extended(rec) == [rec EXCEPT !.event_len = 2 * MetadataSize, !.size = 2 * MetadataSize]

\* the slices: nothing, one or two whole records, up to one whole record
\* followed by a record cut inside its header, a record declaring a length of
\* zero or of more than the slice holds, the edge records, and a record with
\* extension records followed by a second record
Slices ==
    LET whole == {<<>>} \cup {<< r >> : r \in SliceRecords}
    IN whole \cup {<< r1, r2 >> : r1, r2 \in SliceRecords}
       \cup {Append(w, Cut(r, n)) : w \in whole, r \in SliceRecords, n \in {1, MetadataSize - 1}}
       \cup {<< Declared(r, n) >> : r \in SliceRecords, n \in {0, 2 * MetadataSize}}
       \cup {<< r >> : r \in EdgeRecords}
       \cup {<< Extended(r1), r2 >> : r1, r2 \in SliceRecords}

\* a call of Event::from_raw_data
FromRawData ==
    /\ pc = "idle"
    /\ \E data \in Slices, path \in PathResolutions :
         LET o == from_raw_data(data, path)
         IN result' = [Called("from_raw_data", o.ret, o.events, NoEvent, {})
                         EXCEPT !.data = data]
    /\ UNCHANGED << init_flags, session_fd, buffer, watched_paths, kq, delivered, open_fds, kmark,
                    responses, pc, events, returned, last_ok >>

(***************************************************************************)
(* The caller classifies an event it holds: the predicates of Event,       *)
(* event_type, description, and the has_* queries of its MaskFlags.        *)
(***************************************************************************)
EventPredicates == {"is_access", "is_modify", "is_open", "is_close", "is_create",
                    "is_delete", "is_move", "is_permission"}

EventPredicate(name, event) ==
    CASE name = "is_access" -> is_access(event)
      [] name = "is_modify" -> is_modify(event)
      [] name = "is_open" -> is_open(event)
      [] name = "is_close" -> is_close(event)
      [] name = "is_create" -> is_create(event)
      [] name = "is_delete" -> is_delete(event)
      [] name = "is_move" -> is_move(event)
      [] name = "is_permission" -> is_permission(event)

MaskPredicates == {"has_access_events", "has_modify_events", "has_permission_events"}

MaskPredicate(name, mask) ==
    CASE name = "has_access_events" -> has_access_events(mask)
      [] name = "has_modify_events" -> has_modify_events(mask)
      [] name = "has_permission_events" -> has_permission_events(mask)

\* a call of one of Event::is_access .. is_permission
IsPredicate ==
    /\ pc = "idle"
    /\ \E event \in Held, name \in EventPredicates :
         result' = Called(name, Bool(EventPredicate(name, event)), <<>>, event, {})
    /\ UNCHANGED << init_flags, session_fd, buffer, watched_paths, kq, delivered, open_fds, kmark,
                    responses, pc, events, returned, last_ok >>

\* a call of one of MaskFlags::has_*_events on the mask of an event
HasEvents ==
    /\ pc = "idle"
    /\ \E event \in Held, name \in MaskPredicates :
         result' = Called(name, Bool(MaskPredicate(name, event.mask)), <<>>, event, {})
    /\ UNCHANGED << init_flags, session_fd, buffer, watched_paths, kq, delivered, open_fds, kmark,
                    responses, pc, events, returned, last_ok >>

\* a call of Event::event_type
EventType ==
    /\ pc = "idle"
    /\ \E event \in Held : result' = Called("event_type", event_type(event), <<>>, event, {})
    /\ UNCHANGED << init_flags, session_fd, buffer, watched_paths, kq, delivered, open_fds, kmark,
                    responses, pc, events, returned, last_ok >>

\* a call of Event::description
Description ==
    /\ pc = "idle"
    /\ \E event \in Held : result' = Called("description", description(event), <<>>, event, {})
    /\ UNCHANGED << init_flags, session_fd, buffer, watched_paths, kq, delivered, open_fds, kmark,
                    responses, pc, events, returned, last_ok >>

(***************************************************************************)
(* Specifications.  Each follows one part of a session; all start from a   *)
(* session that with_flags has just built.                                 *)
(***************************************************************************)
\* the reads of a session: the kernel's records, read_event, read_events
Next == KernelEmit \/ ReadEvent \/ ReadEvents \/ ReadEventsLoop \/ SetBufferSize

Spec == Init /\ [][Next]_vars

\* every descriptor the reads have returned so far resolved to a path
PathsResolve == \A i \in 1..Len(returned) : returned[i].fd.some => returned[i].path.some

\* every record the kernel has queued so far has a mask the decoder accepts
MasksKnown == \A i \in 1..Len(kq) : from_bits(kq[i].mask).some

\* the responses of a session: a non-blocking session, whose records decode and
\* whose path resolutions succeed, reads events one call at a time and answers them
InitRespond == Init /\ init_flags = RDWR

NextRespond == (KernelEmit /\ MasksKnown') \/ (ReadEvent /\ PathsResolve')
               \/ Respond \/ Allow \/ Deny

SpecRespond == InitRespond /\ [][NextRespond]_vars

\* only the path "/w/a" has been touched by a successful add_watch or remove_watch,
\* and only with the mask ACCESS
OneWatch ==
    /\ \A p \in Paths \ {"/w/a"} : last_ok[p] = "none"
    /\ watched_paths["/w/a"].v \subseteq ACCESS

\* a session whose caller never answers: it watches one path, reads, and removes
\* the watch; every operation but respond, allow, deny
NextQuiet == (KernelEmit /\ MasksKnown') \/ (ReadEvent /\ PathsResolve')
             \/ (ReadEvents /\ PathsResolve') \/ (ReadEventsLoop /\ PathsResolve')
             \/ (AddWatch /\ OneWatch') \/ (RemoveWatch /\ OneWatch')

SpecQuiet == InitRespond /\ [][NextQuiet]_vars

\* the watch set of a session
NextWatch == AddWatch \/ RemoveWatch

SpecWatch == Init /\ [][NextWatch]_vars

\* the watch set of a session and the lookups on it
NextLookup == AddWatch \/ RemoveWatch \/ IsWatched \/ GetMask \/ WatchedPaths

SpecLookup == Init /\ [][NextLookup]_vars

\* a session reads events one call at a time and decodes slices of its own
NextDecode == KernelEmit \/ ReadEvent \/ FromRawData

SpecDecode == Init /\ [][NextDecode]_vars

\* the masks of the records a session classifies: one bit of a one-bit category,
\* one bit of a category of several, bits of two categories, every bit of a
\* category, and the queue overflow record
ClassifyMasks == {ACCESS, CLOSE_WRITE, DELETE \cup ISDIR, ACCESS \cup MODIFY,
                  OPEN_PERM \cup ACCESS_PERM, MOVED_FROM \cup MOVED_TO \cup MOVE_SELF,
                  Q_OVERFLOW}

\* a session reads events and classifies them
NextClassify == KernelEmitOf(ClassifyMasks) \/ (ReadEvent /\ PathsResolve')
                \/ IsPredicate \/ HasEvents \/ EventType \/ Description

SpecClassify == InitRespond /\ [][NextClassify]_vars

\* impl Drop for Fanotify: the handle is taken out and closed, which ends the
\* group in the kernel with its queue and its marks; the value is gone
Drop ==
    /\ pc = "idle"
    /\ session_fd' = FALSE
    /\ pc' = "dropped"
    /\ kq' = <<>>
    /\ kmark' = [e \in Entries |-> {}]
    /\ result' = Called("drop", "Ok", <<>>, NoEvent, {})
    /\ UNCHANGED << init_flags, buffer, watched_paths, delivered, open_fds, responses, events,
                    returned, last_ok >>

\* the records of a session followed from its creation: permission events
SessionMasks == {OPEN_PERM \cup ACCESS_PERM}

\* the step's call names the watched path or a path that resolves to nothing,
\* and adds with the mask ACCESS
OnePath ==
    /\ result'.path \in {"/w/a", "/missing"}
    /\ result'.op \in {"add_watch", "async_add_watch"} => result'.mask = Some(ACCESS)

\* a session from its creation on: it is created, watches one path, reads,
\* allows what it read, and sets its buffer size
NextSession == WithFlags \/ (KernelEmitOf(SessionMasks) /\ pc # "dropped")
               \/ (ReadEvent /\ PathsResolve')
               \/ (ReadEvents /\ PathsResolve') \/ (ReadEventsLoop /\ PathsResolve')
               \/ (AddWatch /\ OneWatch' /\ OnePath)
               \/ (RemoveWatch /\ OneWatch' /\ OnePath)
               \/ Allow \/ SetBufferSize \/ Drop

SpecSession == InitCreate /\ [][NextSession]_vars

\* the creation of a session and its first calls, with no record queued
NextCreate == WithFlags \/ ReadEvent \/ SetBufferSize
              \/ (AddWatch /\ OneWatch') \/ (RemoveWatch /\ OneWatch')

SpecCreate == InitCreate /\ [][NextCreate]_vars

\* a session held through the asynchronous adapter
NextAsync == KernelEmitOf(SessionMasks) \/ (AsyncReadEvent /\ PathsResolve')
             \/ (AsyncReadEvents /\ PathsResolve') \/ (AsyncReadEventsLoop /\ PathsResolve')
             \/ AsyncRespond
             \/ (AsyncAddWatch /\ OneWatch' /\ OnePath)
             \/ (AsyncRemoveWatch /\ OneWatch' /\ OnePath)

SpecAsync == InitRespond /\ [][NextAsync]_vars

(***************************************************************************)
(* Properties of the reads (Spec)                                          *)
(***************************************************************************)
\* the records the step's read dequeued
Batch == SubSeq(delivered', Len(delivered) + 1, Len(delivered'))

\* every mask of the records recs is one the decoder accepts
KnownMasks(recs) == \A i \in 1..Len(recs) : from_bits(recs[i].mask).some

\* the event evs[i] is the decoding of the record recs[i]
Decodes(evs, recs, i) ==
    /\ evs[i].mask = recs[i].mask
    /\ evs[i].pid = as_u32(recs[i].pid)

\* C1: decoding a buffer of n complete back-to-back records (their masks known)
\* yields exactly n events, the i-th with the mask and the pid of the i-th
\* record.  Stated of every read_event call that returns Ok: the events it
\* returns are the records its read dequeued, one for one and in order.
C1_DecodeYieldsEveryRecord ==
    [][(result'.op = "read_event" /\ result'.ret = "Ok" /\ delivered' # delivered
        /\ KnownMasks(Batch))
       => /\ Len(result'.events) = Len(Batch)
          /\ \A i \in 1..Len(Batch) : Decodes(result'.events, Batch, i)]_vars

\* C2: whenever the caller is between calls, the events returned so far are, in
\* order, the records the reads have dequeued so far (their masks known): each
\* dequeued record was returned once.
C2_ReturnedIsDelivered ==
    (pc = "idle" /\ KnownMasks(delivered))
    => /\ Len(returned) = Len(delivered)
       /\ \A i \in 1..Len(delivered) : Decodes(returned, delivered, i)

(***************************************************************************)
(* Properties of the responses (SpecRespond)                               *)
(***************************************************************************)
\* the mask has OPEN_PERM or ACCESS_PERM
HasPermissionBit(event) == event.mask \cap (OPEN_PERM \cup ACCESS_PERM) # {}

\* the last call was a respond (or allow, or deny) and this step made it
RespondReturned == result' # result /\ result'.op = "respond"

\* C3: respond returns InvalidEventData exactly when the event's mask has no
\* permission bit (neither OPEN_PERM nor ACCESS_PERM); an event with a
\* permission bit and a descriptor is not rejected.
C3_RejectsExactlyNonPermission ==
    result.op = "respond"
    => (result.ret = "InvalidEventData" <=> ~HasPermissionBit(result.event))

\* C4: every successful respond / allow / deny writes exactly one record to the
\* handle, nothing else writes one, and the record pairs the fd of the event
\* passed in with 0x01 for Allow and 0x02 for Deny.
C4_SuccessWritesOneRecord ==
    [][/\ responses' # responses
          => /\ result'.op = "respond" /\ result'.ret = "Ok"
             /\ Len(responses') = Len(responses) + 1
       /\ (RespondReturned /\ result'.ret = "Ok")
          => Len(responses') = Len(responses) + 1
       /\ (result'.op = "respond" /\ result'.ret = "Ok")
          => /\ responses' # <<>>
             /\ responses'[Len(responses')].fd = result'.event.fd.v
             /\ result'.response = ALLOW => responses'[Len(responses')].response = 1
             /\ result'.response = DENY => responses'[Len(responses')].response = 2]_vars

\* a successful deny has just written its record
C4_Witness ==
    /\ result.op = "respond" /\ result.ret = "Ok" /\ result.response = DENY
    /\ responses # <<>>
    /\ responses[Len(responses)] = [fd |-> result.event.fd.v, response |-> 2]

\* C5: the response field of every record written is exactly Allow (0x01) or
\* exactly Deny (0x02).
C5_ResponseIsAllowOrDeny ==
    \A i \in 1..Len(responses) : responses[i].response \in {1, 2}

\* an event is Resolved in a response stream that holds an Allow or Deny record
\* for its descriptor; a permission event the caller holds is Received until then
ResolvedIn(stream, event) ==
    \E i \in 1..Len(stream) : stream[i].fd = event.fd.v /\ stream[i].response \in {1, 2}

\* C6, as first stated: once an event is Resolved, no further (Allow or Deny)
\* response record is written for it.
C6_ResolvedIsTerminal ==
    [][\A event \in Held :
         (ResolvedIn(responses, event) /\ responses' # responses)
         => ~ResolvedIn(<< responses'[Len(responses')] >>, event)]_vars

\* C6, amended: an event is Received when it is decoded (no record carries its
\* descriptor), a successful respond(Allow) or respond(Deny) makes it Resolved,
\* and a Resolved event stays Resolved.  (Nothing is consumed: a later respond
\* on it writes again.)
C6_ResolvedOnRespond ==
    [][/\ \A i \in (Len(returned) + 1)..Len(returned') :
            ~ResolvedIn(responses', returned'[i])
       /\ (RespondReturned /\ result'.ret = "Ok" /\ result'.response \in {ALLOW, DENY})
          => ResolvedIn(responses', result'.event)
       /\ \A event \in Held :
            ResolvedIn(responses, event) => ResolvedIn(responses', event)]_vars

\* an event was answered twice: both records are in the stream
C6_Witness ==
    \E i, j \in 1..Len(responses) :
       /\ i < j /\ responses[i].fd = responses[j].fd
       /\ responses[i].response = 1 /\ responses[j].response = 2
       /\ \E event \in Held : is_permission(event) /\ event.fd.v = responses[i].fd

\* C8: respond keeps no state between calls.  Whatever calls came before, a
\* respond that succeeds appends the record of its own event and decision and
\* leaves the earlier records as they were, a respond that fails writes
\* nothing, and no respond changes the watch table, the buffer or the handle.
C8_RespondKeepsNoState ==
    [][/\ (watched_paths' # watched_paths \/ buffer' # buffer \/ session_fd' # session_fd)
          => ~RespondReturned
       /\ responses' # responses
          => /\ SubSeq(responses', 1, Len(responses)) = responses
             /\ responses' = Append(responses, fanotify_response(result'.event.fd.v,
                                                                  bits(result'.response)))
       /\ (RespondReturned /\ result'.ret # "Ok") => responses' = responses]_vars

\* two events were answered one after the other
C8_Witness ==
    /\ Len(responses) = 2 /\ responses[1].fd # responses[2].fd
    /\ result.op = "respond" /\ result.ret = "Ok"
    /\ result.event.fd.v = responses[2].fd

(***************************************************************************)
(* Properties of a session whose caller never answers (SpecQuiet)          *)
(***************************************************************************)
\* C7: the core never answers a permission event itself: while the caller calls
\* no respond / allow / deny, no response record is written, whatever is read,
\* watched or unwatched, and every permission event the caller holds stays
\* Received.
C7_NeverResolvesItself ==
    /\ responses = <<>>
    /\ \A event \in Held : HasPermissionBit(event) => ~ResolvedIn(responses, event)

\* a permission event was returned, a later read returned another event, and
\* remove_watch has just succeeded
C7_Witness ==
    /\ \E i \in 1..Len(returned) : HasPermissionBit(returned[i]) /\ i < Len(returned)
    /\ result.op = "remove_watch" /\ result.ret = "Ok"
    /\ last_ok["/w/a"] = "remove"

(***************************************************************************)
(* Properties of the watch set (SpecWatch)                                 *)
(***************************************************************************)
\* the call this step made failed
WatchCallFailed == result' # result /\ result'.ret # "Ok"

\* C9: a path is watched exactly when the last successful add_watch or
\* remove_watch on it was an add_watch, and a failed call leaves the membership
\* of every path as it was.
C9_WatchedIffLastAdd ==
    /\ \A p \in Paths : is_watched(p) <=> last_ok[p] = "add"
    /\ [][/\ \A p \in Paths : is_watched(p)' <=> last_ok'[p] = "add"
          /\ WatchCallFailed => \A p \in Paths : is_watched(p)' <=> is_watched(p)]_vars

\* one path was added and then removed, another is watched, and the last call
\* (on a watched path or not) failed
C9_Witness ==
    /\ last_ok["/w/a"] = "remove" /\ ~is_watched("/w/a")
    /\ last_ok["/w/b"] = "add" /\ is_watched("/w/b")
    /\ result.ret # "Ok"

\* C10: for every path the mask in the watch table is the mask of the kernel's
\* mark on the entry the path names, and a path absent from the table has no
\* mark bits left.  (Stated for sessions that use one spelling per entry.)
C10_TableEqualsKernelMark ==
    last_ok["/w/./a"] = "none"
    => \A p \in {"/w/a", "/w/b"} :
         kmark[Entry(p)] = (IF is_watched(p) THEN get_mask(p).v ELSE {})

\* the step is a call of op that returned
Returned(op) == result' # result /\ result'.op = op

\* C11: a successful add_watch(p, m) leaves get_mask(p) = Some(m), whatever mask
\* was recorded for p before (the two are not merged), and leaves the entry of
\* every other path as it was.
C11_AddOverwrites ==
    [][(result'.op = "add_watch" /\ result'.ret = "Ok")
       => \A p \in Paths :
            get_mask(p)' = (IF p = result'.path THEN result'.mask ELSE get_mask(p))]_vars

\* "/w/a" was added with ACCESS and then with MODIFY (the kernel's mark has both),
\* while "/w/b" is watched too
C11_Witness ==
    /\ result.op = "add_watch" /\ result.ret = "Ok" /\ result.path = "/w/a"
    /\ get_mask("/w/a") = Some(MODIFY)
    /\ kmark["a"] = ACCESS \cup MODIFY
    /\ get_mask("/w/b") = Some(ACCESS)

\* C12: add_watch on a path that resolves to no filesystem entry returns
\* InvalidPath and leaves the watch table as it was.
C12_MissingPathIsInvalidPath ==
    [][(Returned("add_watch") /\ Entry(result'.path) = "")
       => result'.ret = "InvalidPath" /\ watched_paths' = watched_paths]_vars

\* C13: remove_watch on a path that is not in the watch table (and that names an
\* existing entry) returns success and leaves the watch table as it was.
C13_RemoveUnwatchedSucceeds ==
    [][(Returned("remove_watch") /\ ~result'.mask.some /\ Entry(result'.path) # "")
       => result'.ret = "Ok" /\ watched_paths' = watched_paths]_vars

\* C14: two spellings of one filesystem entry share one entry of the watch
\* table: what is_watched and get_mask report for one they report for the other.
C14_TableKeyedByEntry ==
    \A p, q \in Paths :
       (Entry(p) # "" /\ Entry(p) = Entry(q))
       => (is_watched(p) <=> is_watched(q)) /\ get_mask(p) = get_mask(q)

(***************************************************************************)
(* Properties of the lookups (SpecLookup)                                  *)
(***************************************************************************)
\* C15: is_watched, get_mask and watched_paths are pure lookups: a call of one
\* changes nothing of the session and nothing in the kernel, is_watched answers
\* whether the table has the path and get_mask answers the table's entry; and
\* in every state is_watched(p) is true exactly when get_mask(p) is present.
C15_LookupsArePure ==
    /\ \A p \in Paths : is_watched(p) <=> get_mask(p).some
    /\ [][/\ \A p \in Paths : is_watched(p)' <=> get_mask(p)'.some
          /\ (Returned("is_watched") \/ Returned("get_mask") \/ Returned("watched_paths"))
             => /\ UNCHANGED << init_flags, session_fd, buffer, watched_paths, kq,
                                delivered, open_fds, kmark, responses, pc, events, returned >>
                /\ result'.op = "is_watched"
                   => (result'.ret = "true" <=> watched_paths[result'.path].some)
                /\ result'.op = "get_mask"
                   => result'.mask = watched_paths[result'.path]]_vars

\* get_mask has just answered the mask of a watched path while another spelling
\* of the same directory is not in the table
C15_Witness ==
    /\ result.op = "get_mask" /\ result.path = "/w/a"
    /\ result.mask = Some(ACCESS \cup MODIFY)
    /\ is_watched("/w/a") /\ ~is_watched("/w/./a")

(***************************************************************************)
(* Properties of the classification (SpecClassify)                         *)
(***************************************************************************)
\* the bits of the category each predicate names
Category(name) ==
    CASE name = "is_access" -> ACCESS
      [] name = "is_modify" -> MODIFY
      [] name = "is_open" -> OPEN
      [] name = "is_close" -> CLOSE_WRITE \cup CLOSE_NOWRITE
      [] name = "is_create" -> CREATE
      [] name = "is_delete" -> DELETE \cup DELETE_SELF
      [] name = "is_move" -> MOVED_FROM \cup MOVED_TO \cup MOVE_SELF
      [] name = "is_permission" -> OPEN_PERM \cup ACCESS_PERM
      [] name = "has_access_events" -> ACCESS \cup OPEN \cup ACCESS_PERM
      [] name = "has_modify_events" ->
           MODIFY \cup ATTRIB \cup CLOSE_WRITE \cup CREATE \cup DELETE \cup DELETE_SELF
           \cup MOVE_SELF \cup MOVED_FROM \cup MOVED_TO
      [] name = "has_permission_events" -> OPEN_PERM \cup ACCESS_PERM

\* C16: each predicate of an event is true exactly when the mask has at least
\* one bit of its category, whatever other bits it has, and is_directory is true
\* exactly when it has ISDIR (so DELETE|ISDIR is a delete and a directory).
C16_PredicatesMatchCategory ==
    /\ \A event \in Held : event.is_directory <=> event.mask \cap ISDIR # {}
    /\ result.op \in EventPredicates
       => (result.ret = "true" <=> result.event.mask \cap Category(result.op) # {})

\* C17: has_access_events, has_modify_events and has_permission_events answer
\* true whenever the mask has any bit of the category.
C17_HasEventsOnAnyBit ==
    (result.op \in MaskPredicates /\ result.event.mask \cap Category(result.op) # {})
    => result.ret = "true"

\* C18: an event whose mask is exactly Q_OVERFLOW is not given the fallback
\* classification: its event_type is not "UNKNOWN" and its description is not
\* "unknown event".
C18_OverflowIsItsOwnCategory ==
    result.event.mask = Q_OVERFLOW
    => /\ result.op = "event_type" => result.ret # "UNKNOWN"
       /\ result.op = "description" => result.ret # "unknown event"

(***************************************************************************)
(* Properties of the decoder (SpecDecode)                                  *)
(***************************************************************************)
\* what the decode of the record rec returned: InvalidMask exactly when the mask
\* has a bit that is none of the defined ones, and otherwise an event with the
\* record's mask
MaskVerdict(res, rec) ==
    /\ res.ret = "InvalidMask" <=> rec.mask \ MaskFlags_all # {}
    /\ res.ret # "InvalidMask" => res.ret = "Ok" /\ res.events[1].mask = rec.mask

\* C19: the decode of a record returns InvalidMask exactly when the record's
\* mask has a bit outside the union of the defined MaskFlags bits, and otherwise
\* the decoded event's mask is the record's mask; for a slice the caller
\* passes to from_raw_data and for the record a read hands to it.
C19_InvalidMaskIffUnknownBit ==
    [][/\ (Returned("from_raw_data") /\ DataLen(result'.data) >= MetadataSize)
          => MaskVerdict(result', result'.data[1])
       /\ (Returned("read_event") /\ Batch # <<>>)
          => MaskVerdict(result', Batch[1])]_vars

\* a record with a bit that is not defined was rejected by from_raw_data after a
\* read had decoded a record with a defined mask
C19_Witness ==
    /\ result.op = "from_raw_data" /\ result.ret = "InvalidMask"
    /\ result.data # <<>> /\ FAN_EVENT_ON_CHILD \subseteq result.data[1].mask
    /\ \E i \in 1..Len(returned) : returned[i].mask = delivered[1].mask

\* the bytes of the slice that remain after its whole records are fewer than a
\* header, and not none
TruncatedMidHeader(data) ==
    data # <<>> /\ data[Len(data)].size < MetadataSize

\* C20: the decode of a slice whose remaining length is greater than zero and
\* less than the size of a header returns InvalidEventData.
C20_TruncatedIsInvalidEventData ==
    (result.op = "from_raw_data" /\ TruncatedMidHeader(result.data))
    => result.ret = "InvalidEventData"

\* the head of the slice is a whole header whose event_len is zero or more than
\* the bytes the slice holds
MisDeclared(data) ==
    /\ data # <<>> /\ data[1].size >= MetadataSize
    /\ (data[1].event_len = 0 \/ data[1].event_len > DataLen(data))

\* C21: the decode of a slice whose record declares an event_len of zero or of
\* more than the bytes remaining returns InvalidEventData, and no event is
\* produced from that record or from the bytes after it.
C21_MisDeclaredLenIsInvalidEventData ==
    (result.op = "from_raw_data" /\ MisDeclared(result.data))
    => (result.ret = "InvalidEventData" /\ result.events = <<>>)

\* C23: a decoded event carries a descriptor exactly when the header's fd is
\* not negative, and then that fd; it carries a path only with a descriptor;
\* and whether the path resolves never turns the decode into an error: a
\* record with a whole header and a known mask decodes to Ok.
C23_FdIffNonNegative ==
    (result.op = "from_raw_data" /\ result.data # <<>>
       /\ result.data[1].size >= MetadataSize /\ KnownMasks(<< result.data[1] >>))
    => /\ result.ret = "Ok" /\ Len(result.events) = 1
       /\ LET e == result.events[1]
              rec == result.data[1]
          IN /\ e.fd.some <=> rec.fd >= 0
             /\ e.fd.some => e.fd.v = rec.fd
             /\ e.path.some => e.fd.some

\* a record with a descriptor decoded to an event without a path: a
\* failed resolution
C23_Witness ==
    /\ result.op = "from_raw_data" /\ result.ret = "Ok"
    /\ result.events[1].fd.some /\ ~result.events[1].path.some
    /\ result.data[1].fd = 4

\* a record with a negative descriptor decoded to an event without one
C23_WitnessNoFd ==
    /\ result.op = "from_raw_data" /\ result.ret = "Ok"
    /\ result.data[1].fd < 0 /\ ~result.events[1].fd.some

\* the result is a decode error returned by a read
DecodeFailed(res) ==
    /\ res.op \in {"read_event", "read_events"}
    /\ res.ret \in {"InvalidMask", "InvalidEventData"}

\* C22: a decode error does not poison the session.  A read that returns
\* InvalidMask or InvalidEventData leaves the handle, the watch table and the
\* buffer size as they were and takes from the queue only what it read; and
\* the read_event that follows it returns the record then at the head of the
\* queue, decoded.
C22_DecodeErrorKeepsSession ==
    [][/\ (DecodeFailed(result') /\ delivered' # delivered)
          => /\ session_fd' = session_fd /\ watched_paths' = watched_paths
             /\ buffer' = buffer /\ init_flags' = init_flags
             /\ kq = SubSeq(delivered', Len(delivered) + 1, Len(delivered')) \o kq'
       /\ (DecodeFailed(result) /\ delivered' # delivered /\ result' # result
             /\ result'.op = "read_event" /\ KnownMasks(<< Head(kq) >>))
          => /\ result'.ret = "Ok" /\ Len(result'.events) = 1
             /\ Decodes(result'.events, kq, 1)]_vars

\* a read returned a record decoded after the read of the record before it
\* had returned InvalidMask
C22_Witness ==
    /\ result.op = "read_event" /\ result.ret = "Ok" /\ result.events # <<>>
    /\ Len(delivered) = 2 /\ ~from_bits(delivered[1].mask).some
    /\ result.events[1].mask = delivered[2].mask

\* the i32 with the bits of a u32
as_i32(u) == IF u.hi = 0 THEN u.lo ELSE (u.lo - 2147483647) - 1

\* the header written back from a decoded event: mask, pid and a present
\* descriptor from the event's typed fields, and the fields no typed field
\* keeps (the lengths, the version, the value of an absent descriptor) from the
\* bytes the event kept in raw_data
reencode(event) ==
    LET kept == event.raw_data[1]
    IN [event_len |-> kept.event_len, vers |-> kept.vers,
        metadata_len |-> kept.metadata_len,
        mask |-> event.mask,
        fd |-> IF event.fd.some THEN event.fd.v ELSE kept.fd,
        pid |-> as_i32(event.pid)]

\* the header fields of a record
header(rec) ==
    [event_len |-> rec.event_len, vers |-> rec.vers, metadata_len |-> rec.metadata_len,
     mask |-> rec.mask, fd |-> rec.fd, pid |-> rec.pid]

\* the slice is one whole record of the length it declares, its mask known
ValidSingleRecord(data) ==
    /\ Len(data) = 1 /\ data[1].size = data[1].event_len
    /\ data[1].event_len >= MetadataSize /\ KnownMasks(data)

Specified(errno) == CASE errno = "ENOSYS" -> "NotSupported"
                      [] errno \in {"EPERM", "EACCES"} -> "PermissionDenied"
                      [] errno = "EINVAL" -> "InvalidFlags"
                      [] errno = "EBADF" -> "InvalidFd"
                      [] errno = "ENOENT" -> "InvalidPath"
                      [] errno = "EOVERFLOW" -> "BufferOverflow"
                      [] OTHER -> "SyscallFailed"

\* the answer of the last kernel call of the operation in res
LastCall(res) == res.syscalls[Len(res.syscalls)]

\* C25: every kernel call that fails is returned as the error kind specified
\* for it: the call absent gives NotSupported (Unsupported), the capability
\* lacking gives PermissionDenied, rejected flags give InvalidFlags, a bad
\* descriptor gives InvalidFd, and a failure with no kind of its own gives
\* SyscallFailed; and a create that fails leaves the caller without a session.
C25_FailuresMappedAsSpecified ==
    (result.syscalls # <<>> /\ LastCall(result) \notin {"ok", "EAGAIN"})
    => /\ result.ret = Specified(LastCall(result))
       /\ result.op = "with_flags" => (~session_fd /\ pc = "new")

\* C30: the value passed to the init call has the protocol's close-on-exec
\* bit (FAN_CLOEXEC, 0x1) exactly when the caller selected CLOEXEC and the
\* protocol's non-blocking bit (FAN_NONBLOCK, 0x2) exactly when the caller
\* selected NONBLOCK; and every MaskFlags constant has the value of the FAN_
\* constant of its name.
C30_FlagBitsAreProtocolBits ==
    /\ (result.op = "with_flags" /\ result.syscalls # <<>>)
       => /\ FAN_CLOEXEC \subseteq result.passed <=> "CLOEXEC" \in result.flags
          /\ FAN_NONBLOCK \subseteq result.passed <=> "NONBLOCK" \in result.flags
    /\ \A n \in DOMAIN MaskFlags_consts \cap DOMAIN FAN_consts :
         MaskFlags_consts[n] = FAN_consts[n]

C27_EmptyQueueIsSuccess ==
    [][(/\ Nonblocking /\ kq = <<>> /\ pc = "idle" /\ result' # result
        /\ result'.op \in {"read_event", "read_events"}
        /\ result'.syscalls = << "EAGAIN" >>)
       => /\ result'.ret = "Ok" /\ result'.events = <<>>
          /\ UNCHANGED << init_flags, session_fd, buffer, watched_paths, kq, delivered, open_fds,
                          kmark, responses, pc, events, returned, last_ok >>]_vars

\* read_events found the queue of a non-blocking session empty, after events
\* had been read from it
C27_Witness ==
    /\ Nonblocking /\ kq = <<>> /\ returned # <<>>
    /\ result.op = "read_events" /\ result.syscalls = << "EAGAIN" >>
    /\ result.ret = "Ok" /\ result.events = <<>>

\* C29: the buffer size is 4096 after creation and changes only through
\* set_buffer_size(n), after which buffer_size() is n; no read, add_watch,
\* remove_watch or respond, successful or failed, changes it.
C29_BufferChangesOnlyBySet ==
    [][/\ buffer_size' # buffer_size
          => /\ result' # result
             /\ \/ result'.op = "set_buffer_size"
                \/ (pc = "new" /\ result'.op = "with_flags" /\ result'.ret = "Ok")
       /\ (pc = "new" /\ pc' = "idle") => buffer_size' = 4096
       /\ (result' # result /\ result'.op = "set_buffer_size")
          => buffer_size' = result'.size]_vars

\* a read filled the buffer of one record that set_buffer_size had set, and an
\* answer to the event was written; the size is still the one set
C29_Witness ==
    /\ buffer_size = MetadataSize /\ result.op = "respond" /\ result.ret = "Ok"
    /\ returned # <<>> /\ returned[Len(returned)].raw_data # <<>>
    /\ DataLen(returned[Len(returned)].raw_data) = MetadataSize

(***************************************************************************)
(* Properties of the asynchronous adapter (SpecAsync)                      *)
(***************************************************************************)
\* the step is a turn of the adapter's read_events (and not the kernel
\* queueing a record while the loop runs)
AsyncReadEventsStep ==
    /\ Len(kq') <= Len(kq)
    /\ \/ pc = "async_read_events" \/ pc' = "async_read_events"
       \/ (result' # result /\ result'.op = "async_read_events")

\* C28: the asynchronous adapter refines the synchronous core.  Every call of
\* the adapter's read_event, read_events, respond, add_watch and remove_watch
\* returns the value, and leaves the watch table, the marks, the queue and the
\* responses, that the operation of the same name of the core gives from the
\* same state for the same answer of the kernel.
C28_AsyncRefinesSync ==
    [][/\ (result' # result /\ result'.op = "async_read_event")
          => \E k \in {"ok", "EINTR"}, path \in PathResolutions :
               LET o == read_event(k, path)
               IN /\ o.calls = result'.syscalls /\ Dequeue(o.recs)
                  /\ o.val.ret = result'.ret /\ o.val.events = result'.events
       /\ AsyncReadEventsStep
          => \E k \in {"ok", "EINTR"}, path \in PathResolutions :
               LET o == read_event(k, path)
               IN /\ Dequeue(o.recs)
                  /\ IF o.val.ret # "Ok"
                     THEN /\ pc' = "idle" /\ result'.ret = o.val.ret
                          /\ result'.syscalls = Reads(events) \o o.calls
                     ELSE IF o.val.events # <<>>
                     THEN pc' = "async_read_events" /\ events' = events \o o.val.events
                     ELSE /\ pc' = "idle" /\ result'.ret = "Ok"
                          /\ result'.events = events
                          /\ result'.syscalls = Reads(events) \o o.calls
       /\ (result' # result /\ result'.op = "async_respond")
          => \E k \in {"ok", "ENOENT"} :
               LET o == respond(result'.event, result'.response, k)
               IN /\ o.calls = result'.syscalls /\ o.ret = result'.ret
                  /\ responses' = responses \o o.written
       /\ (result' # result /\ result'.op = "async_add_watch")
          => \E dirfd \in DirFds, k \in {"ok", "ENOSPC"} :
               LET o == add_watch(result'.path, result'.mask.v, dirfd, k)
               IN /\ o.calls = result'.syscalls /\ o.ret = result'.ret
                  /\ watched_paths' = o.table /\ kmark' = o.marks
       /\ (result' # result /\ result'.op = "async_remove_watch")
          => \E dirfd \in DirFds, k \in {"ok", "ENOMEM"} :
               LET o == remove_watch(result'.path, dirfd, k)
               IN /\ o.calls = result'.syscalls /\ o.ret = result'.ret
                  /\ watched_paths' = o.table /\ kmark' = o.marks]_vars

(***************************************************************************)
(* Properties of read_events as a whole call (Spec)                        *)
(***************************************************************************)
\* C31: each call of read_events performs exactly one kernel read, whatever
\* the read returns.
C31_ReadEventsReadsOnce ==
    result.op = "read_events" => Len(result.syscalls) = 1

\* C36: every event a read_events call has dequeued and decoded is returned
\* to the caller, also when a later read or decode of the same call fails: the
\* step in which the call fails hands the events collected so far to the caller.
C36_FailingCallKeepsEvents ==
    [][(result' # result /\ result'.op = "read_events" /\ result'.ret # "Ok")
       => (returned' = returned \o events /\ result'.events = events)]_vars

\* the record carries a descriptor a response is awaited on
PermissionRecord(rec) ==
    rec.fd >= 0 /\ rec.mask \cap (OPEN_PERM \cup ACCESS_PERM) # {}

\* C37: every permission record the session has dequeued reaches the caller
\* as an event carrying its descriptor: once the call that read it is over, an
\* event with the record's descriptor is among those returned.
C37_PermissionRecordsSurface ==
    pc = "idle"
    => \A i \in 1..Len(delivered) :
         PermissionRecord(delivered[i])
         => \E j \in 1..Len(returned) :
              returned[j].fd = Some(delivered[i].fd) /\ returned[j].mask = delivered[i].mask

\* the slice is whole records, each of the length it declares, one of them
\* longer than the header, and their masks known
WithExtension(data) ==
    /\ \A i \in 1..Len(data) :
         data[i].size = data[i].event_len /\ data[i].event_len >= MetadataSize
    /\ \E i \in 1..Len(data) : data[i].event_len > MetadataSize
    /\ KnownMasks(data)

\* C33: the decoder advances by the declared event_len.  Of a slice whose
\* record is followed by extension bytes and then by a second record, the
\* second event is decoded from the byte after the first record's event_len
\* bytes, and each event is attributed its own record's bytes and no more.
C33_AdvancesByEventLen ==
    (result.op = "from_raw_data" /\ WithExtension(result.data))
    => /\ result.ret = "Ok" /\ Len(result.events) = Len(result.data)
       /\ \A i \in 1..Len(result.data) :
            /\ Decodes(result.events, result.data, i)
            /\ result.events[i].raw_data = << result.data[i] >>

(***************************************************************************)
(* Masks built from the named constants (flags.rs)                         *)
(***************************************************************************)
\* the convenience combinations of the bitflags! block, and the value of
\* MaskFlags::default(), which returns MaskFlags::ALL_EVENTS
MaskFlags_unions ==
    [ALL_ACCESS_EVENTS |-> ALL_ACCESS_EVENTS, ALL_MODIFY_EVENTS |-> ALL_MODIFY_EVENTS,
     ALL_EVENTS |-> ALL_EVENTS, default |-> ALL_EVENTS]

MaskFlags_named(n) ==
    IF n \in DOMAIN MaskFlags_consts THEN MaskFlags_consts[n] ELSE MaskFlags_unions[n]

\* MaskFlags::A | MaskFlags::B | ..: the union of the bits of the named values
MaskFlags_of(names) == UNION {MaskFlags_named(n) : n \in names}

\* the masks a caller builds: one named value, or two of the event names
MaskSelections ==
    {{n} : n \in (DOMAIN MaskFlags_consts) \cup (DOMAIN MaskFlags_unions)}
    \cup {{a, b} : a, b \in {"ACCESS", "MODIFY", "OPEN", "OPEN_PERM", "ACCESS_PERM", "UNMOUNT"}}

\* a caller builds a mask from named values and calls one of has_*_events on it
BuiltMaskHasEvents ==
    /\ pc = "idle"
    /\ \E names \in MaskSelections, name \in MaskPredicates :
         result' = [Called(name, Bool(MaskPredicate(name, MaskFlags_of(names))),
                           <<>>, NoEvent, {})
                      EXCEPT !.flags = names, !.mask = Some(MaskFlags_of(names))]
    /\ UNCHANGED << init_flags, session_fd, buffer, watched_paths, kq, delivered, open_fds, kmark,
                    responses, pc, events, returned, last_ok >>

SpecMasks == InitRespond /\ [][BuiltMaskHasEvents]_vars

\* the call asked a has_*_events predicate of a mask built from names
BuiltFrom(names, name) ==
    result.op = name /\ result.flags = names

\* C39: each named default union satisfies its own classification predicate:
\* ALL_ACCESS_EVENTS.has_access_events(), ALL_MODIFY_EVENTS.has_modify_events()
\* and ALL_EVENTS.has_permission_events() are true, and MaskFlags::default()
\* is ALL_EVENTS.
C39_UnionsSatisfyOwnPredicate ==
    /\ BuiltFrom({"ALL_ACCESS_EVENTS"}, "has_access_events") => result.ret = "true"
    /\ BuiltFrom({"ALL_MODIFY_EVENTS"}, "has_modify_events") => result.ret = "true"
    /\ BuiltFrom({"ALL_EVENTS"}, "has_permission_events") => result.ret = "true"
    /\ result.flags = {"default"} => result.mask = Some(ALL_EVENTS)

\* the names of the permission events
PermissionNames == {"OPEN_PERM", "ACCESS_PERM"}

\* C40: no two differently named single-category constants share a bit: a
\* mask built from one named constant contains no other named constant, and a
\* mask built from names that are not permission names has no permission bit.
C40_NamedCategoriesDisjoint ==
    (result.flags # {} /\ result.flags \subseteq DOMAIN MaskFlags_consts)
    => /\ \A a \in DOMAIN MaskFlags_consts :
            result.flags = {a}
            => \A b \in (DOMAIN MaskFlags_consts) \ {a} :
                 ~(MaskFlags_consts[b] \subseteq result.mask.v)
       /\ result.flags \cap PermissionNames = {}
            => result.mask.v \cap (OPEN_PERM \cup ACCESS_PERM) = {}

\* C38: from successful creation until teardown the session holds its one
\* open handle: no operation but the drop clears it, successful or failed;
\* every kernel call of an operation is made while the handle is held (none
\* with the fallback descriptor -1), and read_event never returns without a
\* read (its no-handle branch).
C38_HandleHeldUntilDrop ==
    /\ [](pc \in {"idle", "read_events"} => session_fd)
    /\ [][/\ (session_fd /\ ~session_fd') => result'.op = "drop"
          /\ (result' # result /\ result'.op \notin {"with_flags", "drop"})
               => /\ session_fd
                  /\ result'.op \in {"read_event", "read_events"}
                       => result'.syscalls # <<>>]_vars

\* a read has failed after one that returned an event, and the handle is held
C38_Witness ==
    session_fd /\ result.op = "read_event" /\ result.ret = "Io" /\ returned # <<>>

\* the kernel has been written a response for this descriptor
Answered(fd) == \E i \in 1..Len(responses) : responses[i].fd = fd

\* C34: the path of a permission event is resolved while it is decoded, so
\* before any respond for it: a response is only ever written for an event a
\* read has returned, the events already returned (their paths included) are
\* never changed afterwards, and a respond changes neither them nor the
\* descriptors.  Until a response for it has been written, no operation of
\* the library closes the descriptor of a returned permission event.
C34_ResolvedAtDecodeOpenUntilRespond ==
    /\ [](\A e \in Held :
            (e.fd.some /\ HasPermissionBit(e) /\ ~Answered(e.fd.v)) => e.fd.v \in open_fds)
    /\ [](\A i \in 1..Len(responses) : \E e \in Held : e.fd = Some(responses[i].fd))
    /\ [][/\ Len(returned') >= Len(returned)
          /\ SubSeq(returned', 1, Len(returned)) = returned
          /\ (result' # result /\ result'.op = "respond")
               => (returned' = returned /\ open_fds' = open_fds /\ result'.event \in Held)]_vars

\* two permission events are held with their paths resolved; the first has
\* been answered after the second was read, the second is still open
C34_Witness ==
    /\ Len(returned) = 2 /\ Len(responses) = 1
    /\ result.op = "respond" /\ result.ret = "Ok" /\ result.event = returned[1]
    /\ returned[1].path.some /\ returned[2].path.some
    /\ HasPermissionBit(returned[2]) /\ returned[2].fd.v \in open_fds

(***************************************************************************)
(* read_events followed from the moment it is called: the call is entered, *)
(* then each turn of its loop is a read the kernel has to answer.          *)
(***************************************************************************)
\* Fanotify::read_events is called: the vector is empty, no read made yet
ReadEventsCall ==
    /\ pc = "idle"
    /\ pc' = "read_events"
    /\ events' = <<>>
    /\ UNCHANGED << init_flags, session_fd, buffer, watched_paths, kq, delivered, open_fds,
                    kmark, responses, returned, last_ok, result >>

NextLive == KernelEmit \/ ReadEventsCall \/ ReadEventsLoop \/ SetBufferSize

\* a turn of the loop whose read was answered by the kernel from the state of
\* the group, not cut short by a signal
ReadEventsAnswered ==
    /\ ReadEventsLoop
    /\ ~(pc' = "idle" /\ result'.syscalls # <<>>
         /\ result'.syscalls[Len(result'.syscalls)] = "EINTR")

\* the thread inside read_events keeps running: a read that the kernel can
\* answer is answered, and the loop goes on from it
SpecLive == Init /\ [][NextLive]_vars /\ WF_vars(ReadEventsAnswered)

\* C32: once the kernel has nothing more to deliver, every read_events call
\* returns after finitely many reads, for a session created without the
\* non-blocking flag as well.
C32_ReadEventsReturns == (pc = "read_events") ~> (pc = "idle")

(***************************************************************************)
(* AsyncFanotify::read_event as a future: it suspends at the await of the  *)
(* raw read and runs from the completion of that read to its return.       *)
(* Every operation of the adapter takes &mut self, so none starts while a  *)
(* read_event future of the session is alive.                              *)
(***************************************************************************)
\* the future is polled and suspends at self.fd.read(&mut self.buffer).await
AsyncReadEventAwait ==
    /\ pc = "idle"
    /\ pc' = "async_read_event"
    /\ UNCHANGED << init_flags, session_fd, buffer, watched_paths, kq, delivered, open_fds,
                    kmark, responses, events, returned, last_ok, result >>

\* read_event as it would be with a second suspension point, between the
\* completion of the read and the decode
AsyncReadEventReady_suspend ==
    /\ pc = "async_read_event"
    /\ \E k \in {"ok", "EINTR"}, path \in PathResolutions :
         /\ ReadReturns(k)
         /\ LET o == async_read_event(k, path)
            IN /\ Dequeue(o.recs)
               /\ pc' = "async_decode"
    /\ UNCHANGED << init_flags, session_fd, buffer, watched_paths, kmark, responses,
                    events, returned, last_ok, result >>

\* the raw read completes: the future resumes, decodes the bytes read and returns
AsyncReadEventReady ==
    /\ pc = "async_read_event"
    /\ \E k \in {"ok", "EINTR"}, path \in PathResolutions :
         /\ ReadReturns(k)
         /\ LET o == async_read_event(k, path)
            IN /\ Dequeue(o.recs)
               /\ returned' = returned \o o.val.events
               /\ pc' = "idle"
               /\ result' = [Called("async_read_event", o.val.ret, o.val.events, NoEvent, {})
                               EXCEPT !.syscalls = o.calls]
    /\ UNCHANGED << init_flags, session_fd, buffer, watched_paths, kmark, responses,
                    events, last_ok >>

NextTasks == KernelEmitOf(SessionMasks) \/ AsyncReadEventAwait
             \/ (AsyncReadEventReady /\ PathsResolve')
             \/ AsyncRespond
             \/ (AsyncAddWatch /\ OneWatch' /\ OnePath)
             \/ (AsyncRemoveWatch /\ OneWatch' /\ OnePath)

SpecTasks == InitRespond /\ [][NextTasks]_vars

\* C35: in the adapter at most one read-and-decode is in progress on a
\* session, and read_event suspends only at the raw read.  The step in which
\* a read completes is the step that returns: it ends the one read_event in
\* progress with the event decoded from exactly the bytes that read wrote, and
\* while a read_event is suspended no other operation acts on the session.
C35_SuspendsOnlyAtRawRead ==
    /\ [](pc \in {"idle", "async_read_event"})
    /\ [][/\ delivered' # delivered
             => /\ pc = "async_read_event" /\ pc' = "idle"
                /\ result'.op = "async_read_event" /\ result'.ret = "Ok"
                /\ Len(result'.events) = 1
                /\ result'.events[1].raw_data = Batch
                /\ returned' = returned \o result'.events
          /\ (pc = "async_read_event" /\ pc' = "idle")
             => result'.op = "async_read_event"
          /\ (pc = "async_read_event" /\ pc' # "idle")
             => (pc' = pc /\ UNCHANGED << buffer, watched_paths, delivered, kmark,
                                         responses, returned, result >>)]_vars

\* a read_event that was suspended while the queue was empty has returned the
\* event of a record queued meanwhile, after an earlier read_event
C35_Witness ==
    /\ pc = "idle" /\ result.op = "async_read_event" /\ result.ret = "Ok"
    /\ Len(returned) = 2 /\ result.events = << returned[2] >>
    /\ result.events[1].raw_data = << delivered[2] >>

====
